---- MODULE Spec2Model ----
(***************************************************************************)
(* Model of glide's plugin extension, registration and command-routing     *)
(* subsystem.                                                              *)
(*                                                                         *)
(*   pkg/plugin/registry.go         plugin Registry (Register, Get,        *)
(*                                  SetConfig, LoadAll)                    *)
(*   pkg/plugin/sdk/extensions.go   ExtensionRegistry                      *)
(*   internal/shell/registry.go     ExecutorRegistry                       *)
(***************************************************************************)
EXTENDS Integers, Sequences, FiniteSets, TLC

(***************************************************************************)
(* Bounds                                                                  *)
(***************************************************************************)
\* number of distinct non-empty strings used as plugin names and aliases
NumNames == 2
\* longest alias list a plugin declares
MaxAliases == 2
\* number of distinct configuration trees handed to SetConfig
NumConfigs == 1
\* number of goroutines calling into the registries at the same time
NumThreads == 2
\* number of distinct extension (and provider) objects bearing one name
NumIds == 2
\* number of distinct non-nil values an extension's Detect or Merge returns
NumData == 1
\* largest exit code a command's Result carries
MaxExitCode == 1
\* number of distinct non-empty values a legacy field or a tracked key holds
NumLegacyVals == 1
\* longest sequence of calls of the compatibility bridge on one context
MaxOps == 2
\* longest slice of extensions handed to MergeExtensionData
MaxExts == 3
\* number of distinct values under a key of the docker extension's data
NumVals == 2

NamePool == <<"docker", "git", "d", "g", "x", "y">>

\* strings a plugin may use as name or alias; the empty string is a string
Strs == {""} \cup {NamePool[i] : i \in 1..NumNames}

RECURSIVE SeqsUpTo(_, _)
SeqsUpTo(S, n) ==
    IF n = 0 THEN {<<>>}
    ELSE LET shorter == SeqsUpTo(S, n - 1)
         IN  shorter \cup {Append(s, x) : s \in {t \in shorter : Len(t) = n - 1}, x \in S}

AliasLists == SeqsUpTo(Strs, MaxAliases)

(***************************************************************************)
(* Plugin values: Name() and Metadata().Aliases; a nil Plugin interface.   *)
(***************************************************************************)
NilPlugin == [isNil |-> TRUE, name |-> "", aliases |-> <<>>]

Plugins == [isNil : {FALSE}, name : Strs, aliases : AliasLists]

PluginInputs == Plugins \cup {NilPlugin}

\* config trees: the map NewRegistry makes, and the ones SetConfig receives
EmptyConfig == 0

Configs == 0..NumConfigs

(***************************************************************************)
(* Errors of Registry.Register, one per fmt.Errorf format string           *)
(***************************************************************************)
ErrNone == "nil"
ErrNilPlugin == "cannot register nil plugin"
ErrNoName == "plugin must have a name"
ErrAlreadyRegistered == "plugin %s already registered"
ErrNameConflictsAlias == "plugin name %s conflicts with existing alias"
ErrAliasConflictsPlugin == "plugin alias %s conflicts with existing plugin"
ErrAliasRegistered == "plugin alias %s already registered"

\* the spec's error classes
InvalidPluginErrors == {ErrNilPlugin, ErrNoName}

DuplicateNameErrors == {ErrAlreadyRegistered, ErrNameConflictsAlias}

DuplicateAliasErrors == {ErrAliasConflictsPlugin, ErrAliasRegistered}

(***************************************************************************)
(* Go maps as functions on a finite domain                                 *)
(***************************************************************************)
EmptyMap == [x \in {} |-> x]

MapPut(m, k, v) == [x \in DOMAIN m \cup {k} |-> IF x = k THEN v ELSE m[x]]

\* a delete that leaves the key in place
MapDeleteKeepsKey(m, k) == m

MapDelete(m, k) == [x \in DOMAIN m \ {k} |-> m[x]]

VARIABLES
    plugins,     \* Registry.plugins : name -> Plugin
    aliases,     \* Registry.aliases : alias -> name
    config,      \* Registry.config
    mu,          \* Registry.mu : [w : writer holds it, r : number of readers]
    root,        \* the cobra root command: names of plugins whose commands are attached
    loadPc,      \* position of the LoadAll call in progress
    visited,     \* keys of r.plugins the range loop has finished with
    cur,         \* key of r.plugins the range loop is at
    log,         \* plugin hooks called by the LoadAll call, in order
    loadErr,     \* what the last LoadAll call returned
    registered,  \* history: plugins whose Register returned nil
    lastCall,    \* history: the most recent call on the registry and its result
    lk,          \* lock discipline: the RWMutex of each registry that has one
    th,          \* lock discipline: the call each goroutine is in, and how far
    extensions,  \* ExtensionRegistry.extensions : name -> ContextExtension
    extReplaced, \* history: the names under which an extension took the place of another one
    extLatest,   \* history: name -> the extension most recently registered under it
    extCall,     \* history: the most recent call on the extension registry and its result
    mExts,       \* MergeExtensionData: Name() of each extension of the slice argument
    mData,       \* MergeExtensionData: the dataMap argument
    mRes,        \* MergeExtensionData: what the call returned, and the Merge calls it made
    dExisting,   \* docker Merge: the existing argument
    dNew,        \* docker Merge: the new argument
    dRes,        \* docker Merge: what the call returned
    providers,   \* ExecutorRegistry.providers : name -> ExecutorProvider
    provFirst,   \* history: name -> the first provider offered under it since it was last removed
    execCall,    \* history: the most recent call on the executor registry and its result
    ret,         \* the collection List or All returned last, as its caller holds it
    paCall,      \* routing wrapper: the most recent call, the executors it ran, what it returned
    wrapper,     \* PluginAwareExecutor: the fields registry and standardExecutor
    nExecs,      \* concurrent routing: executors the providers have created so far
    inv,         \* concurrent routing: the invocation of each caller, and how far it is
    projCtx0,        \* compatibility bridge: the ProjectContext before the first call
    projCtxPrev,     \* compatibility bridge: the ProjectContext before the last call
    projCtx,     \* compatibility bridge: the ProjectContext
    hist         \* compatibility bridge: the calls made on the context, in order

pluginVars == <<plugins, aliases, config, mu, root, loadPc, visited, cur, log, loadErr,
                registered, lastCall>>

lockVars == <<lk, th>>

extVars == <<extensions, extReplaced, extLatest, extCall>>

mergeVars == <<mExts, mData, mRes>>

dockerVars == <<dExisting, dNew, dRes>>

execVars == <<providers, provFirst, execCall>>

routeVars == <<paCall>>

concVars == <<wrapper, nExecs, inv>>

bridgeVars == <<projCtx0, projCtxPrev, projCtx, hist>>

\* what the operations of the plugin registry leave alone
notPluginVars == <<lockVars, extVars, mergeVars, dockerVars, execVars, ret, routeVars, concVars, bridgeVars>>

\* what the goroutines of the lock discipline leave alone
notLockVars == <<pluginVars, extVars, mergeVars, dockerVars, execVars, ret, routeVars, concVars, bridgeVars>>

\* what the operations of the extension registry leave alone
notExtVars == <<pluginVars, lockVars, mergeVars, dockerVars, execVars, ret, routeVars, concVars, bridgeVars>>

\* what MergeExtensionData leaves alone
notMergeVars == <<pluginVars, lockVars, extVars, dockerVars, execVars, ret, routeVars, concVars, bridgeVars>>

\* what the docker extension's Merge leaves alone
notDockerVars == <<pluginVars, lockVars, extVars, mergeVars, execVars, ret, routeVars, concVars, bridgeVars>>

\* what the operations of the executor registry leave alone
notExecVars == <<pluginVars, lockVars, extVars, mergeVars, dockerVars, ret, routeVars, concVars, bridgeVars>>

\* what the calls of the routing wrapper leave alone
notRouteVars == <<pluginVars, lockVars, extVars, mergeVars, dockerVars, execVars, ret, concVars, bridgeVars>>

\* what concurrent invocations of the wrapper leave alone
notConcVars == <<pluginVars, lockVars, extVars, mergeVars, dockerVars, execVars, ret, routeVars, bridgeVars>>

\* what the compatibility bridge leaves alone
notBridgeVars == <<pluginVars, lockVars, extVars, mergeVars, dockerVars, execVars, ret, routeVars, concVars>>

vars == <<pluginVars, lockVars, extVars, mergeVars, dockerVars, execVars, ret, routeVars, concVars, bridgeVars>>

(***************************************************************************)
(* Registry.Register, registry.go:40-84                                    *)
(***************************************************************************)
\* the alias-conflict loop, registry.go:66-73: the error of the first
\* conflicting alias from position i on
RECURSIVE CheckAliasesNoPluginCheck(_, _, _, _)
CheckAliasesNoPluginCheck(pl, al, as, i) ==
    IF i > Len(as) THEN ErrNone
    ELSE IF as[i] \in DOMAIN al THEN ErrAliasRegistered
    ELSE CheckAliasesNoPluginCheck(pl, al, as, i + 1)

RECURSIVE CheckAliases(_, _, _, _)
CheckAliases(pl, al, as, i) ==
    IF i > Len(as) THEN ErrNone
    ELSE IF as[i] \in DOMAIN pl THEN ErrAliasConflictsPlugin
    ELSE IF as[i] \in DOMAIN al THEN ErrAliasRegistered
    ELSE CheckAliases(pl, al, as, i + 1)

\* mutants of RegisterErr: a check of registry.go:44-60 left out
RegisterErrNoEmptyCheck(pl, al, p) ==
    IF p.isNil THEN ErrNilPlugin
    ELSE IF p.name \in DOMAIN pl THEN ErrAlreadyRegistered
    ELSE IF p.name \in DOMAIN al THEN ErrNameConflictsAlias
    ELSE CheckAliases(pl, al, p.aliases, 1)

RegisterErrNoAliasNameCheck(pl, al, p) ==
    IF p.isNil THEN ErrNilPlugin
    ELSE IF p.name = "" THEN ErrNoName
    ELSE IF p.name \in DOMAIN pl THEN ErrAlreadyRegistered
    ELSE CheckAliases(pl, al, p.aliases, 1)

\* the error Register returns, registry.go:44-73
RegisterErr(pl, al, p) ==
    IF p.isNil THEN ErrNilPlugin
    ELSE IF p.name = "" THEN ErrNoName
    ELSE IF p.name \in DOMAIN pl THEN ErrAlreadyRegistered
    ELSE IF p.name \in DOMAIN al THEN ErrNameConflictsAlias
    ELSE CheckAliases(pl, al, p.aliases, 1)

\* the alias-store loop, registry.go:79-81
RECURSIVE StoreAliases(_, _, _, _)
StoreAliases(al, as, name, i) ==
    IF i > Len(as) THEN al
    ELSE StoreAliases(MapPut(al, as[i], name), as, name, i + 1)

\* mutant: aliases stored while they are checked, up to the first conflict
RECURSIVE StoreAliasesUntilConflict(_, _, _, _, _)
StoreAliasesUntilConflict(pl, al, as, name, i) ==
    IF i > Len(as) THEN al
    ELSE IF as[i] \in DOMAIN pl \/ as[i] \in DOMAIN al THEN al
    ELSE StoreAliasesUntilConflict(pl, MapPut(al, as[i], name), as, name, i + 1)

RegisterAliasesEager(pl, al, p) ==
    IF RegisterErr(pl, al, p) \in InvalidPluginErrors \cup DuplicateNameErrors THEN al
    ELSE StoreAliasesUntilConflict(pl, al, p.aliases, p.name, 1)

\* r.plugins after Register(p), registry.go:76
RegisterPlugins(pl, al, p) ==
    IF RegisterErr(pl, al, p) = ErrNone THEN MapPut(pl, p.name, p) ELSE pl

\* r.aliases after Register(p), registry.go:79-81
RegisterAliases(pl, al, p) ==
    IF RegisterErr(pl, al, p) = ErrNone THEN StoreAliases(al, p.aliases, p.name, 1) ELSE al

(***************************************************************************)
(* Registry.Get, registry.go:87-103                                        *)
(***************************************************************************)
\* r.plugins[k] of Go: the zero value (nil) for a missing key
Lookup(pl, k) == IF k \in DOMAIN pl THEN pl[k] ELSE NilPlugin

\* mutant: aliases are not resolved
GetNoAlias(pl, al, name) ==
    IF name \in DOMAIN pl THEN [plugin |-> pl[name], found |-> TRUE]
    ELSE [plugin |-> NilPlugin, found |-> FALSE]

Get(pl, al, name) ==
    IF name \in DOMAIN pl THEN [plugin |-> pl[name], found |-> TRUE]
    ELSE IF name \in DOMAIN al THEN [plugin |-> Lookup(pl, al[name]), found |-> TRUE]
    ELSE [plugin |-> NilPlugin, found |-> FALSE]

(***************************************************************************)
(* Registry.mu, a sync.RWMutex                                             *)
(***************************************************************************)
\* a Lock that does not wait for the holder of the mutex
CanLockAnyway(m) == TRUE

CanLock(m) == ~m.w /\ m.r = 0

CanRLock(m) == ~m.w

(***************************************************************************)
(* Lock discipline of the three registries: which calls touch the map of   *)
(* the registry, and which lock each takes before it does                  *)
(***************************************************************************)
Threads == 1..NumThreads

Registries == {"plugin", "extension", "executor"}

Op(reg, name, access, lock) == [reg |-> reg, name |-> name, access |-> access, lock |-> lock]

\* pkg/plugin/registry.go: r.mu.Lock() in Register, r.mu.RLock() in the rest
PluginOps ==
    { Op("plugin", "Register", "write", "Lock"),
      Op("plugin", "Get", "read", "RLock"),
      Op("plugin", "List", "read", "RLock"),
      Op("plugin", "LoadAll", "read", "RLock") }

\* pkg/plugin/sdk/extensions.go: ExtensionRegistry has no mutex field
ExtensionOps ==
    { Op("extension", "Register", "write", "none"),
      Op("extension", "Get", "read", "none"),
      Op("extension", "All", "read", "none"),
      Op("extension", "DetectAll", "read", "none") }

\* internal/shell/registry.go: r.mu.Lock() in Register and Unregister,
\* r.mu.RLock() in Get, FindProvider and All
ExecutorOps ==
    { Op("executor", "Register", "write", "Lock"),
      Op("executor", "Unregister", "write", "Lock"),
      Op("executor", "Get", "read", "RLock"),
      Op("executor", "FindProvider", "read", "RLock"),
      Op("executor", "All", "read", "RLock") }

Ops == PluginOps \cup ExtensionOps \cup ExecutorOps

Idle == [pc |-> "idle"]

NoCall == [op |-> "none"]

\* no collection returned yet.  addr is the storage the returned collection
\* lives in: "fresh" for one the call made, or the name of the registry's own
\* map; changed tells that the caller has written to the collection since
NoRet == [op |-> "none", addr |-> "none", list |-> <<>>, map |-> EmptyMap, changed |-> FALSE]

\* a ProjectContext as its zero value: nil Extensions, every legacy field empty
ZeroContext ==
    [extNil |-> TRUE, ext |-> EmptyMap,
     ComposeFiles |-> 0, ComposeOverride |-> 0, DockerRunning |-> 0, ContainersStatus |-> 0]

\* a caller of the routing wrapper that is in no invocation
IdleInv == [pc |-> "idle", mode |-> "none", found |-> [isNil |-> TRUE, name |-> "", id |-> 0],
            ex |-> 0, creates |-> 0]

\* the nil interface value an extension's Detect or Merge may return
NilData == [isNil |-> TRUE, m |-> EmptyMap]

NoErr == [phase |-> "none", plugin |-> ""]

\* the registries as their constructors make them
InitRegistries ==
    /\ plugins = EmptyMap
    /\ aliases = EmptyMap
    /\ config = EmptyConfig
    /\ mu = [w |-> FALSE, r |-> 0]
    /\ root = {}
    /\ loadPc = "idle"
    /\ visited = {}
    /\ cur = ""
    /\ log = <<>>
    /\ loadErr = NoErr
    /\ registered = {}
    /\ lastCall = NoCall
    /\ lk = [g \in Registries |-> [w |-> FALSE, r |-> 0]]
    /\ th = [t \in Threads |-> Idle]
    /\ extensions = EmptyMap
    /\ extReplaced = {}
    /\ extLatest = EmptyMap
    /\ extCall = NoCall
    /\ providers = EmptyMap
    /\ provFirst = EmptyMap
    /\ execCall = NoCall
    /\ ret = NoRet
    /\ paCall = NoCall
    /\ wrapper = [registry |-> "global", standardExecutor |-> 0]
    /\ nExecs = 0
    /\ inv = [t \in Threads |-> IdleInv]

\* no call of the compatibility bridge, on a context as its zero value
InitNoBridge ==
    /\ projCtx0 = ZeroContext
    /\ projCtxPrev = ZeroContext
    /\ projCtx = ZeroContext
    /\ hist = <<>>

\* no call of MergeExtensionData
InitNoMerge ==
    /\ mExts = <<>>
    /\ mData = EmptyMap
    /\ mRes = NoCall

\* no call of the docker extension's Merge
InitNoDockerMerge ==
    /\ dExisting = NilData
    /\ dNew = NilData
    /\ dRes = NoCall

Init == InitRegistries /\ InitNoMerge /\ InitNoDockerMerge /\ InitNoBridge

\* what the caller of Register(p) can say of p against the registry before the call
NameTaken(pl, al, p) == ~p.isNil /\ p.name \in DOMAIN pl \cup DOMAIN al

AliasTaken(pl, al, p) ==
    \E i \in 1..Len(p.aliases) : p.aliases[i] \in DOMAIN pl \cup DOMAIN al

\* Registry.Register(p): Lock, the body, Unlock
Register(p) ==
    /\ CanLock(mu)
    /\ plugins' = RegisterPlugins(plugins, aliases, p)
    /\ aliases' = RegisterAliases(plugins, aliases, p)
    /\ registered' = IF RegisterErr(plugins, aliases, p) = ErrNone
                     THEN registered \cup {p} ELSE registered
    /\ lastCall' = [op |-> "Register", err |-> RegisterErr(plugins, aliases, p),
                     isNil |-> p.isNil, name |-> p.name,
                     nameTaken |-> NameTaken(plugins, aliases, p),
                     aliasTaken |-> AliasTaken(plugins, aliases, p)]
    /\ UNCHANGED <<config, mu, root, loadPc, visited, cur, log, loadErr>>
    /\ UNCHANGED notPluginVars

\* Registry.Get(name): RLock, the body, RUnlock
GetCall(name) ==
    /\ CanRLock(mu)
    /\ lastCall' = [op |-> "Get", name |-> name, res |-> Get(plugins, aliases, name)]
    /\ UNCHANGED <<plugins, aliases, config, mu, root, loadPc, visited, cur, log, loadErr,
                   registered>>
    /\ UNCHANGED notPluginVars

\* Registry.SetConfig(c), registry.go:118-123
SetConfig(c) ==
    /\ CanLock(mu)
    /\ config' = c
    /\ lastCall' = [op |-> "SetConfig", config |-> c]
    /\ UNCHANGED <<plugins, aliases, mu, root, loadPc, visited, cur, log, loadErr, registered>>
    /\ UNCHANGED notPluginVars

(***************************************************************************)
(* Registry.LoadAll, registry.go:126-143, one step per plugin hook.        *)
(* A hook is the plugin's code: it returns nil or an error.                *)
(***************************************************************************)
Event(p, hook, ok, cfg) == [plugin |-> p, hook |-> hook, ok |-> ok, config |-> cfg]

\* the keys the range loop of registry.go:130 has still to visit
RangeRevisits(pl, vis) == DOMAIN pl

\* the range loop left after its first iteration
RangeStopsAfterFirst(pl, vis) == IF vis = {} THEN DOMAIN pl ELSE {}

RangeRest(pl, vis) == DOMAIN pl \ vis

\* where LoadAll goes after plugin.Configure returned, registry.go:132-134
AfterConfigureIgnoringErr(ok) == "configured"

AfterConfigure(ok) == IF ok THEN "configured" ELSE "returned"

\* where LoadAll goes after plugin.Register returned, registry.go:137-139
AfterRegisterIgnoringErr(ok) == "range"

AfterRegister(ok) == IF ok THEN "range" ELSE "returned"

\* the error LoadAll returns: the failing phase and the map key of the plugin
LoadErr(phase, name) == [phase |-> phase, plugin |-> name]

\* the root command after plugin.Register(root) returned for the plugin at key name
RootAfter(rt, name, ok) == IF ok THEN rt \cup {name} ELSE rt

\* r.mu.RLock(), registry.go:127
LoadAllBegin ==
    /\ loadPc \in {"idle", "returned"}
    /\ CanRLock(mu)
    /\ mu' = [mu EXCEPT !.r = @ + 1]
    /\ loadPc' = "range"
    /\ visited' = {}
    /\ cur' = ""
    /\ log' = <<>>
    /\ loadErr' = NoErr
    /\ lastCall' = [op |-> "LoadAll", plugins |-> plugins, config |-> config]
    /\ UNCHANGED <<plugins, aliases, config, root, registered>>
    /\ UNCHANGED notPluginVars

\* the next key of the range loop and plugin.Configure(r.config), registry.go:130-134
LoadAllConfigure ==
    /\ loadPc = "range"
    /\ \E name \in RangeRest(plugins, visited), ok \in BOOLEAN :
          /\ cur' = name
          /\ log' = Append(log, Event(plugins[name], "Configure", ok, config))
          /\ loadPc' = AfterConfigure(ok)
          /\ loadErr' = IF AfterConfigure(ok) = "returned"
                        THEN LoadErr("configure", name) ELSE loadErr
          /\ mu' = IF AfterConfigure(ok) = "returned" THEN [mu EXCEPT !.r = @ - 1] ELSE mu
    /\ UNCHANGED <<plugins, aliases, config, root, visited, registered, lastCall>>
    /\ UNCHANGED notPluginVars

\* plugin.Register(root), registry.go:137-139
LoadAllRegister ==
    /\ loadPc = "configured"
    /\ \E ok \in BOOLEAN :
          /\ log' = Append(log, Event(plugins[cur], "Register", ok, config))
          /\ root' = RootAfter(root, cur, ok)
          /\ visited' = visited \cup {cur}
          /\ loadPc' = AfterRegister(ok)
          /\ loadErr' = IF AfterRegister(ok) = "returned"
                        THEN LoadErr("register", cur) ELSE loadErr
          /\ mu' = IF AfterRegister(ok) = "returned" THEN [mu EXCEPT !.r = @ - 1] ELSE mu
    /\ UNCHANGED <<plugins, aliases, config, cur, registered, lastCall>>
    /\ UNCHANGED notPluginVars

\* the range loop is over: return nil, registry.go:142
LoadAllReturn ==
    /\ loadPc = "range"
    /\ RangeRest(plugins, visited) = {}
    /\ loadPc' = "returned"
    /\ mu' = [mu EXCEPT !.r = @ - 1]
    /\ UNCHANGED <<plugins, aliases, config, root, visited, cur, log, loadErr, registered,
                   lastCall>>
    /\ UNCHANGED notPluginVars

(***************************************************************************)
(* Spec: the registration interface of the plugin registry                 *)
(***************************************************************************)
Next ==
    \/ \E p \in PluginInputs : Register(p)
    \/ \E name \in Strs : GetCall(name)

Spec == Init /\ [][Next]_vars

(***************************************************************************)
(* SpecLoad: LoadAll over a registry of plugins; the aliases play no part  *)
(* in LoadAll, the plugins registered here declare none                    *)
(***************************************************************************)
LoadPlugins == {p \in PluginInputs : p.aliases = <<>>}

NextLoad ==
    \/ \E p \in LoadPlugins : Register(p)
    \/ \E c \in Configs : SetConfig(c)
    \/ LoadAllBegin
    \/ LoadAllConfigure
    \/ LoadAllRegister
    \/ LoadAllReturn

SpecLoad == Init /\ [][NextLoad]_vars

(***************************************************************************)
(* SpecHooks: LoadAll with plugin hooks that may call back into the        *)
(* registry.  A hook is entered, possibly calls Register or SetConfig on   *)
(* the registry LoadAll is working on, and returns once that call has.     *)
(***************************************************************************)
\* LoadAll calls the next hook, registry.go:132 and 137; calls tells whether
\* the code of the hook calls Register or SetConfig of the registry
HookEnter ==
    /\ \/ loadPc = "range" /\ \E name \in RangeRest(plugins, visited) : cur' = name
       \/ loadPc = "configured" /\ cur' = cur
    /\ \E calls \in BOOLEAN :
          loadPc' = (IF loadPc = "range" THEN "inConfigure" ELSE "inRegister")
                        \o (IF calls THEN "Calling" ELSE "")
    /\ UNCHANGED <<plugins, aliases, config, mu, root, visited, log, loadErr, registered,
                   lastCall>>
    /\ UNCHANGED notPluginVars

\* the hook returns, after the call it made has returned, and LoadAll goes
\* on as registry.go:132-139 says
HookReturn ==
    /\ \/ loadPc \in {"inConfigure", "inRegister"}
       \/ /\ loadPc \in {"inConfigureCalling", "inRegisterCalling"}
          /\ lastCall.op \in {"Register", "SetConfig"}
    /\ \E ok \in BOOLEAN :
          LET conf == loadPc \in {"inConfigure", "inConfigureCalling"}
              next == IF conf THEN AfterConfigure(ok) ELSE AfterRegister(ok)
          IN  /\ log' = Append(log, Event(plugins[cur], IF conf THEN "Configure" ELSE "Register",
                                          ok, config))
              /\ root' = IF conf THEN root ELSE RootAfter(root, cur, ok)
              /\ visited' = IF conf THEN visited ELSE visited \cup {cur}
              /\ loadPc' = next
              /\ loadErr' = IF next = "returned"
                            THEN LoadErr(IF conf THEN "configure" ELSE "register", cur)
                            ELSE loadErr
              /\ mu' = IF next = "returned" THEN [mu EXCEPT !.r = @ - 1] ELSE mu
    /\ UNCHANGED <<plugins, aliases, config, cur, registered, lastCall>>
    /\ UNCHANGED notPluginVars

NextHooks ==
    \/ \E p \in LoadPlugins : Register(p)
    \/ \E c \in Configs : SetConfig(c)
    \/ LoadAllBegin
    \/ HookEnter
    \/ HookReturn
    \/ LoadAllReturn

\* every call in progress goes on when it can: a goroutine that is not
\* blocked runs
SpecHooks ==
    /\ Init
    /\ [][NextHooks]_vars
    /\ WF_vars(\E p \in LoadPlugins : Register(p))
    /\ WF_vars(\E c \in Configs : SetConfig(c))
    /\ WF_vars(HookEnter)
    /\ WF_vars(HookReturn)
    /\ WF_vars(LoadAllReturn)

(***************************************************************************)
(* SpecLock: goroutines calling into the three registries.  A call is      *)
(* entered, takes the lock its code takes (waiting for it), is at the map, *)
(* and releases the lock on return.                                        *)
(***************************************************************************)
\* a goroutine enters a call
Call(t, o) ==
    /\ th[t].pc = "idle"
    /\ th' = [th EXCEPT ![t] = [pc |-> "called", op |-> o]]
    /\ UNCHANGED <<lk, notLockVars>>

\* the call takes its lock, when it takes one, and reaches the map
Acquire(t) ==
    /\ th[t].pc = "called"
    /\ LET o == th[t].op
       IN  /\ o.lock = "Lock" => CanLock(lk[o.reg])
           /\ o.lock = "RLock" => CanRLock(lk[o.reg])
           /\ lk' = CASE o.lock = "Lock" -> [lk EXCEPT ![o.reg].w = TRUE]
                      [] o.lock = "RLock" -> [lk EXCEPT ![o.reg].r = @ + 1]
                      [] OTHER -> lk
    /\ th' = [th EXCEPT ![t].pc = "inMap"]
    /\ UNCHANGED notLockVars

\* the call is done with the map and returns: the deferred Unlock or RUnlock
Release(t) ==
    /\ th[t].pc = "inMap"
    /\ LET o == th[t].op
       IN  lk' = CASE o.lock = "Lock" -> [lk EXCEPT ![o.reg].w = FALSE]
                   [] o.lock = "RLock" -> [lk EXCEPT ![o.reg].r = @ - 1]
                   [] OTHER -> lk
    /\ th' = [th EXCEPT ![t] = Idle]
    /\ UNCHANGED notLockVars

NextLock ==
    \/ \E t \in Threads, o \in Ops : Call(t, o)
    \/ \E t \in Threads : Acquire(t)
    \/ \E t \in Threads : Release(t)

SpecLock == Init /\ [][NextLock]_vars

(***************************************************************************)
(* ExtensionRegistry, pkg/plugin/sdk/extensions.go                         *)
(***************************************************************************)
\* a nil ContextExtension, and the extensions: Name() and the object's identity
NilExt == [isNil |-> TRUE, name |-> "", id |-> 0]

Exts == [isNil : {FALSE}, name : Strs, id : 1..NumIds]

ExtInputs == Exts \cup {NilExt}

\* extension data: nil, or a value an extension made

Datum(i) == [isNil |-> FALSE, m |-> [k \in {"compose_files"} |-> i]]

Data == {NilData} \cup {Datum(i) : i \in 1..NumData}

ErrInvalidExtensionName == "extension name cannot be empty"

\* the error ExtensionRegistry.Register returns, extensions.go:46-56
ExtRegisterErrNoCheck(e) == ErrNone

ExtRegisterErr(e) ==
    IF e.isNil THEN ErrNone
    ELSE IF e.name = "" THEN ErrInvalidExtensionName
    ELSE ErrNone

\* r.extensions after Register(e), extensions.go:46-56
ExtRegisterMapKeepFirst(exts, e) ==
    IF e.isNil \/ ExtRegisterErr(e) # ErrNone \/ e.name \in DOMAIN exts THEN exts
    ELSE MapPut(exts, e.name, e)

ExtRegisterMap(exts, e) ==
    IF e.isNil \/ ExtRegisterErr(e) # ErrNone THEN exts
    ELSE MapPut(exts, e.name, e)

\* ExtensionRegistry.Get, extensions.go:60-63
ExtGet(exts, name) ==
    IF name \in DOMAIN exts THEN [ext |-> exts[name], ok |-> TRUE]
    ELSE [ext |-> NilExt, ok |-> FALSE]

\* the orders in which a range loop visits the keys of a map
Perms(S) ==
    {s \in [1..Cardinality(S) -> S] : \A i, j \in DOMAIN s : i # j => s[i] # s[j]}

\* what ext.Detect(ctx, projectRoot) returns: (data, err)
DetectOutcomes == [data : Data, err : BOOLEAN]

\* one turn of the loop of DetectAll, extensions.go:80-87: the results after
\* the extension at key name returned o
DetectStepKeepNil(results, name, o) ==
    IF o.err THEN results ELSE MapPut(results, name, o.data)

DetectStep(results, name, o) ==
    IF o.err THEN results
    ELSE IF o.data # NilData THEN MapPut(results, name, o.data)
    ELSE results

\* whether the loop goes on after the extension returned o, extensions.go:81-84
DetectGoesOnUnlessErr(o) == ~o.err

DetectGoesOn(o) == TRUE

\* DetectAll from position i of the visiting order on, extensions.go:79-90:
\* the results and the Detect calls made
RECURSIVE DetectLoop(_, _, _, _, _, _)
DetectLoop(exts, order, out, i, results, calls) ==
    IF i > Len(order) THEN [results |-> results, calls |-> calls, err |-> ErrNone]
    ELSE LET name == order[i]
             o == out[name]
             res == DetectStep(results, name, o)
             cs == Append(calls, [ext |-> exts[name], data |-> o.data, err |-> o.err])
         IN  IF DetectGoesOn(o)
             THEN DetectLoop(exts, order, out, i + 1, res, cs)
             ELSE [results |-> res, calls |-> cs, err |-> ErrNone]

\* ExtensionRegistry.Register(e), extensions.go:45-57
ExtRegister(e) ==
    /\ extensions' = ExtRegisterMap(extensions, e)
    /\ extReplaced' = IF ~e.isNil /\ e.name \in DOMAIN extLatest /\ extLatest[e.name] # e
                      THEN extReplaced \cup {e.name} ELSE extReplaced
    /\ extLatest' = IF e.isNil \/ e.name = "" THEN extLatest ELSE MapPut(extLatest, e.name, e)
    /\ extCall' = [op |-> "Register", ext |-> e, err |-> ExtRegisterErr(e),
                   dup |-> e.name \in DOMAIN extensions]
    /\ UNCHANGED notExtVars

\* ExtensionRegistry.Get(name), extensions.go:60-63
ExtGetCall(name) ==
    /\ extCall' = [op |-> "Get", name |-> name, res |-> ExtGet(extensions, name)]
    /\ UNCHANGED <<extensions, extReplaced, extLatest>>
    /\ UNCHANGED notExtVars

\* ExtensionRegistry.DetectAll(ctx, projectRoot), extensions.go:76-91; each
\* extension's Detect is the plugin's code and returns what it will
DetectAll ==
    /\ \E order \in Perms(DOMAIN extensions), out \in [DOMAIN extensions -> DetectOutcomes] :
          extCall' = [op |-> "DetectAll", out |-> out,
                      res |-> DetectLoop(extensions, order, out, 1, EmptyMap, <<>>)]
    /\ UNCHANGED <<extensions, extReplaced, extLatest>>
    /\ UNCHANGED notExtVars

(***************************************************************************)
(* SpecExt: the extension registry                                         *)
(***************************************************************************)
\* DetectAll leaves the registry as it is: a second DetectAll in a row reaches
\* nothing the first one does not reach
NextExt ==
    \/ \E e \in ExtInputs : ExtRegister(e)
    \/ \E name \in Strs : ExtGetCall(name)
    \/ extCall.op # "DetectAll" /\ DetectAll

SpecExt == Init /\ [][NextExt]_vars

(***************************************************************************)
(* Executor registry, internal/shell/registry.go                           *)
(***************************************************************************)
NilProvider == [isNil |-> TRUE, name |-> "", id |-> 0]

\* a provider: what Name() returns, and which object it is
Providers == [isNil : {FALSE}, name : Strs, id : 1..NumIds]

ProviderInputs == Providers \cup {NilProvider}

ErrEmptyProviderName == "executor provider name cannot be empty"

ErrProviderRegistered == "executor provider already registered"

\* what Register returns, registry.go:41-60
ExecRegisterErrNoEmptyCheck(provs, p) ==
    IF p.isNil THEN ErrNone
    ELSE IF p.name \in DOMAIN provs THEN ErrProviderRegistered
    ELSE ErrNone

ExecRegisterErr(provs, p) ==
    IF p.isNil THEN ErrNone
    ELSE IF p.name = "" THEN ErrEmptyProviderName
    ELSE IF p.name \in DOMAIN provs THEN ErrProviderRegistered
    ELSE ErrNone

\* the providers map after Register, registry.go:58
ExecRegisterMapOverwrites(provs, p) ==
    IF p.isNil \/ p.name = "" THEN provs ELSE MapPut(provs, p.name, p)

ExecRegisterMap(provs, p) ==
    IF p.isNil \/ ExecRegisterErr(provs, p) # ErrNone THEN provs ELSE MapPut(provs, p.name, p)

\* provider, ok := r.providers[name], registry.go:67-68
ExecGet(provs, name) ==
    IF name \in DOMAIN provs THEN [provider |-> provs[name], ok |-> TRUE]
    ELSE [provider |-> NilProvider, ok |-> FALSE]

\* ExecutorRegistry.Register(provider)
ExecRegister(p) ==
    /\ providers' = ExecRegisterMap(providers, p)
    /\ provFirst' = IF p.isNil \/ p.name = "" \/ p.name \in DOMAIN provFirst THEN provFirst
                    ELSE MapPut(provFirst, p.name, p)
    /\ execCall' = [op |-> "Register", provider |-> p, err |-> ExecRegisterErr(providers, p),
                    dup |-> ~p.isNil /\ p.name \in DOMAIN providers]
    /\ UNCHANGED notExecVars

\* ExecutorRegistry.Get(name)
ExecGetCall(name) ==
    /\ execCall' = [op |-> "Get", name |-> name, res |-> ExecGet(providers, name)]
    /\ UNCHANGED <<providers, provFirst>>
    /\ UNCHANGED notExecVars

\* provider.CanHandle(cmd) for the command at hand: the provider's own code,
\* it answers what it will
CanHandleOutcomes(provs) == [DOMAIN provs -> BOOLEAN]

\* if provider.CanHandle(cmd), registry.go:77
ClaimsUnasked(can, name) == TRUE

Claims(can, name) == can[name]

\* the loop of FindProvider, registry.go:76-81, over the providers in the order
\* the range yields them, from position i on
RECURSIVE FindLoop(_, _, _, _)
FindLoop(provs, order, can, i) ==
    IF i > Len(order) THEN NilProvider
    ELSE IF Claims(can, order[i]) THEN provs[order[i]]
    ELSE FindLoop(provs, order, can, i + 1)

\* ExecutorRegistry.FindProvider(cmd): RLock, the loop, RUnlock
FindProvider ==
    /\ \E order \in Perms(DOMAIN providers), can \in CanHandleOutcomes(providers) :
          execCall' = [op |-> "FindProvider", can |-> can,
                       res |-> FindLoop(providers, order, can, 1)]
    /\ UNCHANGED <<providers, provFirst>>
    /\ UNCHANGED notExecVars

\* ExecutorRegistry.Unregister(name), registry.go:98-103
Unregister(name) ==
    /\ providers' = MapDelete(providers, name)
    /\ provFirst' = MapDelete(provFirst, name)
    /\ execCall' = [op |-> "Unregister", name |-> name, found |-> name \in DOMAIN providers]
    /\ UNCHANGED notExecVars

\* ExecutorRegistry.Clear(), registry.go:106-111
Clear ==
    /\ providers' = EmptyMap
    /\ provFirst' = EmptyMap
    /\ execCall' = [op |-> "Clear"]
    /\ UNCHANGED notExecVars

(***************************************************************************)
(* SpecRace: goroutines each calling ExecutorRegistry.Register once, one   *)
(* statement group of registry.go:41-60 at a time                          *)
(***************************************************************************)
\* what the steps of a Register call leave alone
notRaceVars == <<pluginVars, extVars, mergeVars, dockerVars, provFirst, execCall, ret, routeVars,
                 concVars, bridgeVars>>

\* the call is made; the nil check and the name check, registry.go:42-49
RegCall(t, p) ==
    /\ th[t] = Idle
    /\ th' = [th EXCEPT ![t] =
                 IF p.isNil THEN [pc |-> "done", provider |-> p, err |-> ErrNone]
                 ELSE IF p.name = "" THEN [pc |-> "done", provider |-> p, err |-> ErrEmptyProviderName]
                 ELSE [pc |-> "named", provider |-> p, err |-> ErrNone]]
    /\ UNCHANGED <<lk, providers, notRaceVars>>

\* r.mu.Lock(), registry.go:51
RegLock(t) ==
    /\ th[t].pc = "named"
    /\ CanLock(lk["executor"])
    /\ lk' = [lk EXCEPT !["executor"].w = TRUE]
    /\ th' = [th EXCEPT ![t].pc = "locked"]
    /\ UNCHANGED <<providers, notRaceVars>>

\* if _, exists := r.providers[name]; exists, registry.go:54-56
RegCheck(t) ==
    /\ th[t].pc = "locked"
    /\ th' = [th EXCEPT ![t] =
                 IF th[t].provider.name \in DOMAIN providers
                 THEN [@ EXCEPT !.pc = "unlocking", !.err = ErrProviderRegistered]
                 ELSE [@ EXCEPT !.pc = "storing"]]
    /\ UNCHANGED <<lk, providers, notRaceVars>>

\* r.providers[name] = provider, registry.go:58
RegStore(t) ==
    /\ th[t].pc = "storing"
    /\ providers' = MapPut(providers, th[t].provider.name, th[t].provider)
    /\ th' = [th EXCEPT ![t].pc = "unlocking"]
    /\ UNCHANGED <<lk, notRaceVars>>

\* the deferred r.mu.Unlock() and the return, registry.go:52
RegUnlock(t) ==
    /\ th[t].pc = "unlocking"
    /\ lk' = [lk EXCEPT !["executor"].w = FALSE]
    /\ th' = [th EXCEPT ![t].pc = "done"]
    /\ UNCHANGED <<providers, notRaceVars>>

NextRace ==
    \/ \E t \in Threads, p \in ProviderInputs : RegCall(t, p)
    \/ \E t \in Threads : RegLock(t)
    \/ \E t \in Threads : RegCheck(t)
    \/ \E t \in Threads : RegStore(t)
    \/ \E t \in Threads : RegUnlock(t)

SpecRace == Init /\ [][NextRace]_vars

(***************************************************************************)
(* SpecExec: the executor registry                                         *)
(***************************************************************************)
NextExec ==
    \/ \E p \in ProviderInputs : ExecRegister(p)
    \/ \E name \in Strs : ExecGetCall(name)
    \/ \E name \in Strs : Unregister(name)
    \/ Clear
    \/ FindProvider

SpecExec == Init /\ [][NextExec]_vars

(***************************************************************************)
(* List and All: the collections handed to callers, and what a caller's    *)
(* writes to them reach                                                    *)
(***************************************************************************)
\* Registry.List's result, registry.go:110-114: a slice made by the call,
\* filled in the order the range over the map yields
ListResult(pl, order) ==
    [addr |-> "fresh", list |-> [i \in 1..Len(order) |-> pl[order[i]]]]

\* ExtensionRegistry.All's result, extensions.go:67-72
ExtAllResultShared(exts) == [addr |-> "extensions", map |-> exts]

ExtAllResult(exts) == [addr |-> "fresh", map |-> exts]

\* ExecutorRegistry.All's result, registry.go:89-94
ExecAllResult(provs) == [addr |-> "fresh", map |-> provs]

\* Registry.List(): RLock, the body, RUnlock
List ==
    /\ CanRLock(mu)
    /\ \E order \in Perms(DOMAIN plugins) :
          ret' = [op |-> "List", addr |-> ListResult(plugins, order).addr,
                  list |-> ListResult(plugins, order).list, map |-> EmptyMap,
                  changed |-> FALSE]
    /\ UNCHANGED <<pluginVars, lockVars, extVars, mergeVars, dockerVars, execVars, routeVars, concVars, bridgeVars>>

\* ExtensionRegistry.All()
ExtAll ==
    /\ ret' = [op |-> "ExtAll", addr |-> ExtAllResult(extensions).addr, list |-> <<>>,
               map |-> ExtAllResult(extensions).map, changed |-> FALSE]
    /\ UNCHANGED <<pluginVars, lockVars, extVars, mergeVars, dockerVars, execVars, routeVars, concVars, bridgeVars>>

\* ExecutorRegistry.All()
ExecAll ==
    /\ ret' = [op |-> "ExecAll", addr |-> ExecAllResult(providers).addr, list |-> <<>>,
               map |-> ExecAllResult(providers).map, changed |-> FALSE]
    /\ UNCHANGED <<pluginVars, lockVars, extVars, mergeVars, dockerVars, execVars, routeVars, concVars, bridgeVars>>

\* what a caller can make of a slice: replace an element, append one, drop the last
ListChanges(l) ==
    {[l EXCEPT ![i] = p] : i \in DOMAIN l, p \in {q \in Plugins : q.aliases = <<>>}}
        \cup {Append(l, p) : p \in {q \in Plugins : q.aliases = <<>>}}
        \cup {SubSeq(l, 1, Len(l) - 1) : i \in DOMAIN l}

\* what a caller can make of a map: add or replace an entry, delete one
MapChanges(m) ==
    {MapPut(m, v.name, v) : v \in Exts}
        \cup {MapDelete(m, k) : k \in DOMAIN m}

\* the caller writes to the collection it was handed; a write lands in the
\* storage the collection lives in
ChangeReturned ==
    /\ ret.op # "none"
    /\ ~ret.changed
    /\ \/ /\ ret.op = "List"
          /\ \E l \in ListChanges(ret.list) : ret' = [ret EXCEPT !.list = l, !.changed = TRUE]
          /\ UNCHANGED <<extensions, providers>>
       \/ /\ ret.op # "List"
          /\ \E m \in MapChanges(ret.map) :
                /\ ret' = [ret EXCEPT !.map = m, !.changed = TRUE]
                /\ extensions' = IF ret.addr = "extensions" THEN m ELSE extensions
                /\ providers' = IF ret.addr = "providers" THEN m ELSE providers
    /\ UNCHANGED <<extReplaced, extLatest, extCall, provFirst, execCall>>
    /\ UNCHANGED <<pluginVars, lockVars, mergeVars, dockerVars, routeVars, concVars, bridgeVars>>

(***************************************************************************)
(* SpecCopy: a registry is filled, a caller takes a collection from it and *)
(* writes to it.  The three registries share no state, so a behaviour uses *)
(* one of them.                                                            *)
(***************************************************************************)
PluginsUntouched == lastCall = NoCall

ExtUntouched == extCall = NoCall

ExecUntouched == execCall = NoCall

NextCopy ==
    \/ /\ ret = NoRet /\ ExtUntouched /\ ExecUntouched
       /\ \E p \in LoadPlugins : Register(p)
    \/ /\ ret = NoRet /\ PluginsUntouched /\ ExecUntouched
       /\ \E e \in ExtInputs : ExtRegister(e)
    \/ /\ ret = NoRet /\ PluginsUntouched /\ ExtUntouched
       /\ \E p \in ProviderInputs : ExecRegister(p)
    \/ List
    \/ ExtAll
    \/ ExecAll
    \/ ChangeReturned

SpecCopy == Init /\ [][NextCopy]_vars

(***************************************************************************)
(* PluginAwareExecutor, internal/shell/plugin_aware.go                     *)
(***************************************************************************)
ErrExec == "execution failed"

\* a non-nil Result.Error
ErrExit == "exit status"

NilResult == [isNil |-> TRUE, exitCode |-> 0, error |-> ErrNone]

\* *Result: ExitCode and Error
Results == [isNil : {FALSE}, exitCode : 0..MaxExitCode, error : {ErrNone, ErrExit}]

\* what an executor's Execute or ExecuteWithContext returns: a result and no
\* error, or an error with or without a result
ExecOutcomes ==
    [result : Results, err : {ErrNone}] \cup [result : Results \cup {NilResult}, err : {ErrExec}]

\* the context a caller hands to ExecuteWithContext; none for Execute
CallerCtx == "caller"

NoCtx == "none"

\* e.standardExecutor
StandardExecutor == [standard |-> TRUE, provider |-> NilProvider, ctxAware |-> TRUE]

\* provider.CreateExecutor(options): an executor of the provider, which is a
\* ContextAwareExecutor or not
CreateExecutor(p, aware) == [standard |-> FALSE, provider |-> p, ctxAware |-> aware]

\* one call of an executor's Execute or ExecuteWithContext
Invocation(ex, mode, ctx) == [executor |-> ex, mode |-> mode, ctx |-> ctx]

\* return executor.Execute(cmd): what the executor returned is what is returned
PassThroughWrapped(out) ==
    [out EXCEPT !.err = IF out.err = ErrNone THEN ErrNone ELSE "routing: execution failed"]

PassThrough(out) == out

\* Execute after FindProvider returned found, plugin_aware.go:31-38: the
\* CreateExecutor calls, the executor invocations, the return value
ExecuteTraceBoth(found, aware, out) ==
    IF ~found.isNil
    THEN [created |-> <<found>>,
          ran |-> <<Invocation(CreateExecutor(found, aware), "Execute", NoCtx),
                    Invocation(StandardExecutor, "Execute", NoCtx)>>,
          ret |-> PassThrough(out)]
    ELSE [created |-> <<>>, ran |-> <<Invocation(StandardExecutor, "Execute", NoCtx)>>,
          ret |-> PassThrough(out)]

ExecuteTrace(found, aware, out) ==
    IF ~found.isNil
    THEN [created |-> <<found>>,
          ran |-> <<Invocation(CreateExecutor(found, aware), "Execute", NoCtx)>>,
          ret |-> PassThrough(out)]
    ELSE [created |-> <<>>, ran |-> <<Invocation(StandardExecutor, "Execute", NoCtx)>>,
          ret |-> PassThrough(out)]

\* ExecuteWithContext after FindProvider returned found, plugin_aware.go:45-59
ExecuteWithContextTracePlain(found, aware, ctx, out) ==
    IF ~found.isNil
    THEN [created |-> <<found>>,
          ran |-> <<Invocation(CreateExecutor(found, aware), "Execute", NoCtx)>>,
          ret |-> PassThrough(out)]
    ELSE [created |-> <<>>,
          ran |-> <<Invocation(StandardExecutor, "ExecuteWithContext", ctx)>>,
          ret |-> PassThrough(out)]

ExecuteWithContextTrace(found, aware, ctx, out) ==
    IF ~found.isNil
    THEN IF aware
         THEN [created |-> <<found>>,
               ran |-> <<Invocation(CreateExecutor(found, aware), "ExecuteWithContext", ctx)>>,
               ret |-> PassThrough(out)]
         ELSE [created |-> <<found>>,
               ran |-> <<Invocation(CreateExecutor(found, aware), "Execute", NoCtx)>>,
               ret |-> PassThrough(out)]
    ELSE [created |-> <<>>,
          ran |-> <<Invocation(StandardExecutor, "ExecuteWithContext", ctx)>>,
          ret |-> PassThrough(out)]

\* what Run returns for what Execute returned, plugin_aware.go:72-81
RunErr(r) ==
    IF r.err # ErrNone THEN r.err
    ELSE IF r.result.error # ErrNone THEN r.result.error
    ELSE IF r.result.exitCode # 0 THEN r.result.error
    ELSE ErrNone

\* what RunCapture returns for what Execute returned, plugin_aware.go:88-97
RunCaptureRet(r) ==
    IF r.err # ErrNone THEN [text |-> "", err |-> r.err]
    ELSE IF r.result.error # ErrNone THEN [text |-> "", err |-> r.result.error]
    ELSE IF r.result.exitCode # 0 THEN [text |-> "stderr", err |-> r.result.error]
    ELSE [text |-> "stdout", err |-> ErrNone]

\* the record of a call of the wrapper
Routed(op, ctx, found, aware, out, t) ==
    [op |-> op, ctx |-> ctx, found |-> found, aware |-> aware, out |-> out,
     created |-> t.created, ran |-> t.ran, ret |-> t.ret]

\* PluginAwareExecutor.Execute(cmd)
Execute ==
    /\ \E order \in Perms(DOMAIN providers), can \in CanHandleOutcomes(providers),
          aware \in BOOLEAN, out \in ExecOutcomes :
          LET found == FindLoop(providers, order, can, 1)
          IN  paCall' = Routed("Execute", NoCtx, found, aware, out,
                               ExecuteTrace(found, aware, out))
    /\ UNCHANGED notRouteVars

\* PluginAwareExecutor.ExecuteWithContext(ctx, cmd)
ExecuteWithContext ==
    /\ \E order \in Perms(DOMAIN providers), can \in CanHandleOutcomes(providers),
          aware \in BOOLEAN, out \in ExecOutcomes :
          LET found == FindLoop(providers, order, can, 1)
          IN  paCall' = Routed("ExecuteWithContext", CallerCtx, found, aware, out,
                               ExecuteWithContextTrace(found, aware, CallerCtx, out))
    /\ UNCHANGED notRouteVars

\* PluginAwareExecutor.Run(name, args...)
Run ==
    /\ \E order \in Perms(DOMAIN providers), can \in CanHandleOutcomes(providers),
          aware \in BOOLEAN, out \in ExecOutcomes :
          LET found == FindLoop(providers, order, can, 1)
              t == ExecuteTrace(found, aware, out)
          IN  paCall' = [Routed("Run", NoCtx, found, aware, out, t) EXCEPT
                            !.ret = [text |-> "", err |-> RunErr(t.ret)]]
    /\ UNCHANGED notRouteVars

\* PluginAwareExecutor.RunCapture(name, args...)
RunCapture ==
    /\ \E order \in Perms(DOMAIN providers), can \in CanHandleOutcomes(providers),
          aware \in BOOLEAN, out \in ExecOutcomes :
          LET found == FindLoop(providers, order, can, 1)
              t == ExecuteTrace(found, aware, out)
          IN  paCall' = [Routed("RunCapture", NoCtx, found, aware, out, t) EXCEPT
                            !.ret = RunCaptureRet(t.ret)]
    /\ UNCHANGED notRouteVars

(***************************************************************************)
(* SpecRoute: providers are registered at startup, then commands are       *)
(* routed; one provider object per name                                    *)
(***************************************************************************)
RouteProviders == {p \in ProviderInputs : p.id <= 1}

\* a call of the wrapper leaves the registry as it is: a call after another
\* one reaches nothing the first does not reach
NextRoute ==
    \/ paCall = NoCall /\ \E p \in RouteProviders : ExecRegister(p)
    \/ paCall = NoCall /\ Execute
    \/ paCall = NoCall /\ ExecuteWithContext
    \/ paCall = NoCall /\ Run
    \/ paCall = NoCall /\ RunCapture

SpecRoute == Init /\ [][NextRoute]_vars

(***************************************************************************)
(* Concurrent invocations of PluginAwareExecutor.Execute and               *)
(* ExecuteWithContext, one per caller.  An executor is the number of the   *)
(* object: 0 is e.standardExecutor, n > 0 the n-th one a provider created. *)
(***************************************************************************)
\* provider.CreateExecutor(options) makes a new object
NewExecutorCached(n) == 1

NewExecutor(n) == n + 1

\* provider := e.registry.FindProvider(cmd), plugin_aware.go:30 and 44
BeginInvocation(t, mode) ==
    /\ inv[t].pc = "idle"
    /\ \E order \in Perms(DOMAIN providers), can \in CanHandleOutcomes(providers) :
          inv' = [inv EXCEPT ![t] = [pc |-> "found", mode |-> mode,
                                     found |-> FindLoop(providers, order, can, 1),
                                     ex |-> 0, creates |-> 0]]
    /\ UNCHANGED <<wrapper, nExecs>>
    /\ UNCHANGED notConcVars

\* executor := provider.CreateExecutor(...) when a provider was found,
\* e.standardExecutor otherwise, plugin_aware.go:31-38 and 45-59
ChooseExecutor(t) ==
    /\ inv[t].pc = "found"
    /\ IF ~inv[t].found.isNil
       THEN /\ inv' = [inv EXCEPT ![t].pc = "chosen", ![t].ex = NewExecutor(nExecs),
                                  ![t].creates = inv[t].creates + 1]
            /\ nExecs' = nExecs + 1
       ELSE /\ inv' = [inv EXCEPT ![t].pc = "chosen", ![t].ex = wrapper.standardExecutor]
            /\ nExecs' = nExecs
    /\ UNCHANGED wrapper
    /\ UNCHANGED notConcVars

\* return executor.Execute(cmd) or ExecuteWithContext(ctx, cmd)
RunExecutor(t) ==
    /\ inv[t].pc = "chosen"
    /\ inv' = [inv EXCEPT ![t].pc = "done"]
    /\ UNCHANGED <<wrapper, nExecs>>
    /\ UNCHANGED notConcVars

(***************************************************************************)
(* SpecConc: providers are registered at startup, then each caller makes   *)
(* one invocation, in any interleaving                                     *)
(***************************************************************************)
NoInvocation == \A t \in Threads : inv[t].pc = "idle"

ConcProviders == {p \in Providers : p.name # "" /\ p.id <= 1}

NextConc ==
    \/ NoInvocation /\ \E p \in ConcProviders : ExecRegister(p)
    \/ \E t \in Threads, mode \in {"Execute", "ExecuteWithContext"} : BeginInvocation(t, mode)
    \/ \E t \in Threads : ChooseExecutor(t)
    \/ \E t \in Threads : RunExecutor(t)

SpecConc == Init /\ [][NextConc]_vars

(***************************************************************************)
(* Compatibility bridge, internal/context/compatibility.go.  A value of a  *)
(* legacy field, or of a key of the docker mapping, is a number: 0 is the  *)
(* empty one (no files, "", false, no containers).  A value under a key is *)
(* held as an interface{}: its dynamic type and the number.                *)
(***************************************************************************)
LegacyVals == 0..NumLegacyVals

TrackedKeys == {"compose_files", "compose_override", "docker_running", "containers_status"}

\* a key the legacy struct has no field for
UnknownKey == "custom"

\* the dynamic type each tracked key is asserted to, compatibility.go:22-39
ExpectedType(k) ==
    IF k = "compose_files" THEN "[]string"
    ELSE IF k = "compose_override" THEN "string"
    ELSE IF k = "docker_running" THEN "bool"
    ELSE "map[string]ContainerStatus"

\* a dynamic type none of the assertions asks for
TOther == "int"

\* the values a key of the docker mapping may hold: of the asserted type or
\* of another type
ValuesOf(k) ==
    IF k \in TrackedKeys
    THEN [type : {ExpectedType(k)}, v : IF k = "docker_running" THEN {0, 1} ELSE LegacyVals]
             \cup {[type |-> TOther, v |-> 0]}
    ELSE {[type |-> TOther, v |-> 1]}

\* the map[string]interface{} values: each key absent or with one of its values
DockerMaps ==
    LET Absent == [type |-> "absent", v |-> 0]
        Opt(k) == ValuesOf(k) \cup {Absent}
        MapOf(choice) == [k \in {x \in DOMAIN choice : choice[x] # Absent} |-> choice[k]]
    IN  {MapOf([compose_files |-> a, compose_override |-> b, docker_running |-> c,
                containers_status |-> d, custom |-> e]) :
            a \in Opt("compose_files"), b \in Opt("compose_override"), c \in Opt("docker_running"),
            d \in Opt("containers_status"), e \in Opt(UnknownKey)}

\* what Extensions holds under a name: a map[string]interface{} or something else
NotAMap == [isMap |-> FALSE, m |-> EmptyMap]

MapValue(f) == [isMap |-> TRUE, m |-> f]

\* the Extensions maps: with or without a "docker" entry, with or without
\* the entry of another extension
ExtensionMaps ==
    {[k \in K |-> NotAMap] : K \in SUBSET {"git"}}
        \cup {[k \in K \cup {"docker"} |-> IF k = "docker" THEN d ELSE NotAMap] :
                  K \in SUBSET {"git"}, d \in {NotAMap} \cup {MapValue(f) : f \in DockerMaps}}

\* the contexts; a nil Extensions map has no entry
WellFormedContexts ==
    {[extNil |-> FALSE, ext |-> g, ComposeFiles |-> cf, ComposeOverride |-> co,
      DockerRunning |-> dr, ContainersStatus |-> cs] :
        g \in ExtensionMaps, cf \in LegacyVals, co \in LegacyVals, dr \in {0, 1}, cs \in LegacyVals}
    \cup
    {[extNil |-> TRUE, ext |-> EmptyMap, ComposeFiles |-> cf, ComposeOverride |-> co,
      DockerRunning |-> dr, ContainersStatus |-> cs] :
        cf \in LegacyVals, co \in LegacyVals, dr \in {0, 1}, cs \in LegacyVals}

\* the assertion without its type: any value under the key passes
AssertsToAny(dc, key) == key \in DOMAIN dc

\* v, ok := dockerCtx[key].(T)
AssertsTo(dc, key) == key \in DOMAIN dc /\ dc[key].type = ExpectedType(key)

\* PopulateCompatibilityFields(ctx), compatibility.go:5-40
PopulateCompatibilityFields(c) ==
    IF c.extNil THEN c
    ELSE IF "docker" \notin DOMAIN c.ext THEN c
    ELSE IF ~c.ext["docker"].isMap THEN c
    ELSE LET dc == c.ext["docker"].m
         IN  [c EXCEPT
                !.ComposeFiles = IF AssertsTo(dc, "compose_files")
                                 THEN dc["compose_files"].v ELSE @,
                !.ComposeOverride = IF AssertsTo(dc, "compose_override")
                                    THEN dc["compose_override"].v ELSE @,
                !.DockerRunning = IF AssertsTo(dc, "docker_running")
                                  THEN dc["docker_running"].v ELSE @,
                !.ContainersStatus = IF AssertsTo(dc, "containers_status")
                                     THEN dc["containers_status"].v ELSE @]

\* hasDockerData without the DockerRunning disjunct
HasDockerDataNoFlag(c) ==
    c.ComposeFiles > 0 \/ c.ComposeOverride # 0 \/ c.ContainersStatus > 0

\* hasDockerData, compatibility.go:51-54
HasDockerData(c) ==
    c.ComposeFiles > 0 \/ c.ComposeOverride # 0 \/ c.DockerRunning = 1 \/ c.ContainersStatus > 0

\* the legacy field that goes with a tracked key
LegacyField(c, k) ==
    IF k = "compose_files" THEN c.ComposeFiles
    ELSE IF k = "compose_override" THEN c.ComposeOverride
    ELSE IF k = "docker_running" THEN c.DockerRunning
    ELSE c.ContainersStatus

\* the legacy field as a value of the docker mapping
LegacyValue(c, k) == [type |-> ExpectedType(k), v |-> LegacyField(c, k)]

\* dockerCtx filled on top of the keys of the mapping that was there
NewDockerCtxMerged(c) ==
    LET old == IF ~c.extNil /\ "docker" \in DOMAIN c.ext /\ c.ext["docker"].isMap
               THEN c.ext["docker"].m ELSE EmptyMap
        keys == {k \in TrackedKeys : k = "docker_running" \/ LegacyField(c, k) # 0}
    IN  [k \in keys \cup DOMAIN old |-> IF k \in keys THEN LegacyValue(c, k) ELSE old[k]]

\* dockerCtx without the containers_status key
NewDockerCtxNoStatus(c) ==
    LET keys == {"docker_running"}
                    \cup (IF c.ComposeFiles > 0 THEN {"compose_files"} ELSE {})
                    \cup (IF c.ComposeOverride # 0 THEN {"compose_override"} ELSE {})
    IN  [k \in keys |-> LegacyValue(c, k)]

\* dockerCtx as compatibility.go:60-74 fills it
NewDockerCtx(c) ==
    LET keys == {"docker_running"}
                    \cup (IF c.ComposeFiles > 0 THEN {"compose_files"} ELSE {})
                    \cup (IF c.ComposeOverride # 0 THEN {"compose_override"} ELSE {})
                    \cup (IF c.ContainersStatus > 0 THEN {"containers_status"} ELSE {})
    IN  [k \in keys |-> LegacyValue(c, k)]

\* the update without the early return of compatibility.go:56-58
UpdateAlways(c) ==
    LET made == IF c.extNil THEN [c EXCEPT !.extNil = FALSE, !.ext = EmptyMap] ELSE c
    IN  [made EXCEPT !.ext = MapPut(made.ext, "docker", MapValue(NewDockerCtx(made)))]

\* the update that clears DockerRunning once it has written it
UpdateConsumesFlag(c) ==
    LET made == IF c.extNil THEN [c EXCEPT !.extNil = FALSE, !.ext = EmptyMap] ELSE c
    IN  IF ~HasDockerData(made) THEN made
        ELSE [made EXCEPT !.ext = MapPut(made.ext, "docker", MapValue(NewDockerCtx(made))),
                          !.DockerRunning = 0]

\* the update that assigns a new Extensions map holding the "docker" entry only
UpdateReplacesExtensions(c) ==
    LET made == IF c.extNil THEN [c EXCEPT !.extNil = FALSE, !.ext = EmptyMap] ELSE c
    IN  IF ~HasDockerData(made) THEN made
        ELSE [made EXCEPT !.ext = MapPut(EmptyMap, "docker", MapValue(NewDockerCtx(made)))]

\* UpdateExtensionsFromCompatibility(ctx), compatibility.go:45-77
UpdateExtensionsFromCompatibility(c) ==
    LET made == IF c.extNil THEN [c EXCEPT !.extNil = FALSE, !.ext = EmptyMap] ELSE c
    IN  IF ~HasDockerData(made) THEN made
        ELSE [made EXCEPT !.ext = MapPut(made.ext, "docker", MapValue(NewDockerCtx(made)))]

\* the mapping under Extensions["docker"] as compatibility.go:6-19 reads it:
\* empty when Extensions is nil, has no "docker" entry or holds another shape
DockerOf(c) ==
    IF ~c.extNil /\ "docker" \in DOMAIN c.ext /\ c.ext["docker"].isMap
    THEN c.ext["docker"].m ELSE EmptyMap

\* non-empty list, non-empty string, true, non-empty mapping
NonDefault(c, k) == LegacyField(c, k) # 0

\* every tracked key of the mapping holds a value of the asserted type
WellTyped(dc) == \A k \in TrackedKeys \cap DOMAIN dc : dc[k].type = ExpectedType(k)

Populate ==
    /\ Len(hist) < MaxOps
    /\ projCtx' = PopulateCompatibilityFields(projCtx)
    /\ projCtxPrev' = projCtx
    /\ hist' = Append(hist, "Populate")
    /\ UNCHANGED projCtx0
    /\ UNCHANGED notBridgeVars

Update ==
    /\ Len(hist) < MaxOps
    /\ projCtx' = UpdateExtensionsFromCompatibility(projCtx)
    /\ projCtxPrev' = projCtx
    /\ hist' = Append(hist, "Update")
    /\ UNCHANGED projCtx0
    /\ UNCHANGED notBridgeVars

(***************************************************************************)
(* SpecBridge: the two functions of the bridge called on any context       *)
(***************************************************************************)
InitBridge ==
    /\ InitRegistries
    /\ InitNoMerge
    /\ InitNoDockerMerge
    /\ projCtx0 \in WellFormedContexts
    /\ projCtxPrev = projCtx0
    /\ projCtx = projCtx0
    /\ hist = <<>>

NextBridge ==
    \/ Populate
    \/ Update

SpecBridge == InitBridge /\ [][NextBridge]_vars

(***************************************************************************)
(* MergeExtensionData, extensions.go:94-117.  The function is pure: the    *)
(* arguments are drawn at the start and the action applies it.             *)
(***************************************************************************)
\* names of extensions: Register lets no empty name in
ExtNames == Strs \ {""}

DataMaps == UNION {[D -> Data] : D \in SUBSET ExtNames}

ErrMerge == "merge failed"

\* what ext.Merge(existing, new) returns: (merged, nil) or (nil, err)
MergeOutcomes == [data : Data, err : {ErrNone}] \cup [data : {NilData}, err : {ErrMerge}]

\* result[name] = merged, extensions.go:106
MergeStoreKeepsExisting(result, name, o) == result

MergeStore(result, name, o) == MapPut(result, name, o.data)

\* return nil, err, extensions.go:103-105
MergeFailureKeepsResult(result, calls, e) ==
    [op |-> "MergeExtensionData", isNil |-> FALSE, result |-> result, err |-> e,
     calls |-> calls]

MergeFailure(result, calls, e) ==
    [op |-> "MergeExtensionData", isNil |-> TRUE, result |-> EmptyMap, err |-> e,
     calls |-> calls]

\* the loop of extensions.go:97-114 from position i on; outs[i] is what the
\* Merge of the extension at position i returns when it is called
RECURSIVE MergeLoop(_, _, _, _, _, _)
MergeLoop(exts, dataMap, outs, i, result, calls) ==
    IF i > Len(exts)
    THEN [op |-> "MergeExtensionData", isNil |-> FALSE, result |-> result, err |-> ErrNone,
          calls |-> calls]
    ELSE LET name == exts[i]
         IN  IF name \in DOMAIN result
             THEN IF name \in DOMAIN dataMap
                  THEN LET cs == Append(calls, [pos |-> i, name |-> name,
                                                existing |-> result[name],
                                                new |-> dataMap[name], out |-> outs[i]])
                       IN  IF outs[i].err # ErrNone
                           THEN MergeFailure(result, cs, outs[i].err)
                           ELSE MergeLoop(exts, dataMap, outs, i + 1,
                                          MergeStore(result, name, outs[i]), cs)
                  ELSE MergeLoop(exts, dataMap, outs, i + 1, result, calls)
             ELSE IF name \in DOMAIN dataMap
                  THEN MergeLoop(exts, dataMap, outs, i + 1,
                                 MapPut(result, name, dataMap[name]), calls)
                  ELSE MergeLoop(exts, dataMap, outs, i + 1, result, calls)

\* MergeExtensionData(extensions, dataMap)
MergeExtensionData ==
    /\ mRes = NoCall
    /\ \E outs \in [1..Len(mExts) -> MergeOutcomes] :
          mRes' = MergeLoop(mExts, mData, outs, 1, EmptyMap, <<>>)
    /\ UNCHANGED <<mExts, mData>>
    /\ UNCHANGED notMergeVars

InitMergeData ==
    /\ InitRegistries
    /\ mExts \in SeqsUpTo(ExtNames, MaxExts)
    /\ mData \in DataMaps
    /\ mRes = NoCall
    /\ InitNoDockerMerge
    /\ InitNoBridge

NextMergeData ==
    \/ MergeExtensionData

SpecMergeData == InitMergeData /\ [][NextMergeData]_vars

(***************************************************************************)
(* The docker extension's Merge.  Its implementation is in                 *)
(* plugins/docker, outside the sources at hand; it is modelled from its    *)
(* contract: nil on one side returns the other side, and of two mappings   *)
(* the keys of the new one overwrite those of the existing one.            *)
(***************************************************************************)
DockerKeys == {"docker_running", "compose_files"}

DockerVals == 1..NumVals

\* what the docker extension detects: nil or a mapping from keys to values
DockerData ==
    {NilData} \cup
    {[isNil |-> FALSE, m |-> f] : f \in UNION {[K -> DockerVals] : K \in SUBSET DockerKeys}}

DockerMergeKeepsExisting(existing, new) ==
    [data |-> IF new.isNil THEN existing
              ELSE IF existing.isNil THEN new
              ELSE [isNil |-> FALSE,
                    m |-> [k \in DOMAIN existing.m \cup DOMAIN new.m |->
                              IF k \in DOMAIN existing.m THEN existing.m[k] ELSE new.m[k]]],
     err |-> ErrNone]

DockerMerge(existing, new) ==
    [data |-> IF new.isNil THEN existing
              ELSE IF existing.isNil THEN new
              ELSE [isNil |-> FALSE,
                    m |-> [k \in DOMAIN existing.m \cup DOMAIN new.m |->
                              IF k \in DOMAIN new.m THEN new.m[k] ELSE existing.m[k]]],
     err |-> ErrNone]

\* detector.Merge(existing, new)
Merge ==
    /\ dRes = NoCall
    /\ dRes' = [op |-> "Merge"] @@ DockerMerge(dExisting, dNew)
    /\ UNCHANGED <<dExisting, dNew>>
    /\ UNCHANGED notDockerVars

InitDockerMerge ==
    /\ InitRegistries
    /\ InitNoMerge
    /\ dExisting \in DockerData
    /\ dNew \in DockerData
    /\ dRes = NoCall
    /\ InitNoBridge

NextDockerMerge ==
    \/ Merge

SpecDockerMerge == InitDockerMerge /\ [][NextDockerMerge]_vars

(***************************************************************************)
(* Plugin registry: registration                                           *)
(***************************************************************************)
RegisteredNames == {p.name : p \in registered}

RegisteredAliases == UNION {{p.aliases[i] : i \in 1..Len(p.aliases)} : p \in registered}

\* C1: a Register call that returns an error (nil plugin, empty name, name
\* collision, alias collision at any position) leaves the plugins map and
\* the aliases map as they were, and the number of plugins unchanged
C1_FailedRegisterChangesNothing ==
    [][(lastCall'.op = "Register" /\ lastCall'.err # ErrNone)
          => /\ plugins' = plugins
             /\ aliases' = aliases
             /\ Cardinality(DOMAIN plugins') = Cardinality(DOMAIN plugins)]_vars

C1_Witness ==
    /\ lastCall.op = "Register"
    /\ lastCall.err = ErrAliasRegistered
    /\ ~lastCall.nameTaken
    /\ lastCall.name # ""
    /\ Cardinality(DOMAIN plugins) = 1

\* C2 as stated: Register fails with a duplicate-name error whenever the
\* plugin's name is already registered as a primary name or as an alias
C2_Original ==
    (lastCall.op = "Register" /\ lastCall.nameTaken)
        => lastCall.err \in DuplicateNameErrors

\* C2 amended: Register of a plugin whose name is not empty fails with a
\* duplicate-name error whenever that name is already registered as a
\* primary name or as an alias (an empty name is an invalid-plugin error
\* even when "" is a registered alias)
C2_DuplicateName ==
    (lastCall.op = "Register" /\ lastCall.nameTaken /\ lastCall.name # "")
        => lastCall.err \in DuplicateNameErrors

C2_Witness ==
    /\ lastCall.op = "Register"
    /\ lastCall.name # ""
    /\ lastCall.err = ErrNameConflictsAlias

\* C3 as stated: Register fails with a duplicate-alias error whenever one of
\* the plugin's aliases equals a registered primary name or alias
C3_Original ==
    (lastCall.op = "Register" /\ lastCall.aliasTaken)
        => lastCall.err \in DuplicateAliasErrors

\* C3 amended: Register of a plugin that is not nil, whose name is not empty
\* and not already registered as a primary name or alias, fails with a
\* duplicate-alias error whenever one of its aliases equals a registered
\* primary name or alias
C3_DuplicateAlias ==
    (/\ lastCall.op = "Register"
     /\ lastCall.aliasTaken
     /\ ~lastCall.isNil
     /\ lastCall.name # ""
     /\ ~lastCall.nameTaken)
        => lastCall.err \in DuplicateAliasErrors

C3_Witness ==
    /\ lastCall.op = "Register"
    /\ lastCall.aliasTaken
    /\ lastCall.err = ErrAliasConflictsPlugin

\* C4: every plugin whose Register succeeded is what Get returns for its name
\* and for each of its aliases, and Get finds nothing for a string that is
\* neither a registered name nor a registered alias
C4_GetResolves ==
    /\ \A p \in registered :
          /\ Get(plugins, aliases, p.name) = [plugin |-> p, found |-> TRUE]
          /\ \A i \in 1..Len(p.aliases) :
                Get(plugins, aliases, p.aliases[i]) = [plugin |-> p, found |-> TRUE]
    /\ \A s \in Strs \ (RegisteredNames \cup RegisteredAliases) :
          Get(plugins, aliases, s) = [plugin |-> NilPlugin, found |-> FALSE]
    /\ lastCall.op = "Get" => lastCall.res = Get(plugins, aliases, lastCall.name)

C4_Witness ==
    /\ lastCall.op = "Get"
    /\ lastCall.res.found
    /\ lastCall.name \in RegisteredAliases \ RegisteredNames
    /\ Cardinality(registered) = 2

\* C5: every alias key maps to a primary name present in the plugins map, and
\* no string is both a primary name and an alias key
C5_OneLevel ==
    \A a \in DOMAIN aliases : aliases[a] \in DOMAIN plugins /\ a \notin DOMAIN plugins

\* C6: Register fails with an invalid-plugin error when the plugin is nil or
\* its name is the empty string
C6_InvalidPlugin ==
    (lastCall.op = "Register" /\ (lastCall.isNil \/ lastCall.name = ""))
        => lastCall.err \in InvalidPluginErrors

C6_Witness ==
    /\ lastCall.op = "Register"
    /\ ~lastCall.isNil
    /\ lastCall.err = ErrNoName
    /\ "" \in DOMAIN aliases

(***************************************************************************)
(* Plugin registry: LoadAll                                                *)
(***************************************************************************)
\* C7: within one LoadAll call Configure is called on a plugin before
\* Register is called on it, and Register is never called on a plugin whose
\* Configure returned an error
C7_ConfigureThenRegister ==
    /\ \A j \in 1..Len(log) :
          log[j].hook = "Register" =>
              \E i \in 1..(j - 1) :
                  /\ log[i].hook = "Configure"
                  /\ log[i].plugin = log[j].plugin
    /\ \A i, j \in 1..Len(log) :
          (log[i].hook = "Configure" /\ ~log[i].ok /\ log[j].hook = "Register")
              => log[j].plugin # log[i].plugin

C7_Witness ==
    /\ loadPc = "returned"
    /\ Len(log) = 3
    /\ log[2].hook = "Register"
    /\ log[3].hook = "Configure"
    /\ ~log[3].ok

\* C8: when a hook returns an error, LoadAll returns an error naming that
\* plugin and the failing phase, no hook is called after the failing call,
\* and the commands attached by the plugins processed before stay attached
C8_FailFast ==
    /\ \A i \in 1..Len(log) :
          ~log[i].ok =>
              /\ i = Len(log)
              /\ loadPc = "returned"
              /\ loadErr.plugin = log[i].plugin.name
              /\ loadErr.phase = (IF log[i].hook = "Configure" THEN "configure" ELSE "register")
    /\ \A i \in 1..Len(log) :
          (log[i].hook = "Register" /\ log[i].ok) => log[i].plugin.name \in root
    /\ (loadPc = "returned" /\ loadErr = NoErr) => \A i \in 1..Len(log) : log[i].ok

C8_Witness ==
    /\ loadPc = "returned"
    /\ loadErr.phase = "register"
    /\ Len(log) = 4
    /\ log[2].plugin.name \in root
    /\ log[4].plugin.name \notin root

\* C9 as stated: no plugin's Configure call occurs after some plugin's
\* Register call has happened in the same LoadAll call
C9_Original ==
    \A i, j \in 1..Len(log) :
        (i < j /\ log[i].hook = "Register") => log[j].hook # "Configure"

\* C9 amended: no plugin's Configure call occurs after that same plugin's
\* Register call in the same LoadAll call; the Configure call of one plugin
\* does follow the Register call of the plugin processed before it
C9_ConfigureBeforeOwnRegister ==
    \A i, j \in 1..Len(log) :
        (i < j /\ log[i].hook = "Register" /\ log[j].hook = "Configure")
            => log[j].plugin # log[i].plugin

C9_Witness ==
    /\ Len(log) = 4
    /\ log[2].hook = "Register"
    /\ log[3].hook = "Configure"
    /\ log[3].plugin # log[2].plugin
    /\ log[4].ok

(***************************************************************************)
(* Lock discipline                                                         *)
(***************************************************************************)
\* C10: in every registry a write of the map happens under the exclusive
\* lock and a read under the shared lock, so no goroutine is at the map of a
\* registry while another goroutine writes it
C10_NoReaderDuringWrite ==
    \A t, u \in Threads :
        (/\ t # u
         /\ th[t].pc = "inMap"
         /\ th[u].pc = "inMap"
         /\ th[t].op.reg = th[u].op.reg)
            => (th[t].op.access = "read" /\ th[u].op.access = "read")

(***************************************************************************)
(* Extension registry                                                      *)
(***************************************************************************)
CallsOf(c) == {c.res.calls[i] : i \in 1..Len(c.res.calls)}

\* C12: DetectAll calls Detect on every registered extension whatever errors
\* the others return, an extension whose Detect returns an error has no entry
\* in the result, and DetectAll returns a nil error
C12_DetectAllBestEffort ==
    extCall.op = "DetectAll" =>
        /\ {c.ext : c \in CallsOf(extCall)} = {extensions[n] : n \in DOMAIN extensions}
        /\ Len(extCall.res.calls) = Cardinality(DOMAIN extensions)
        /\ \A c \in CallsOf(extCall) : c.err => c.ext.name \notin DOMAIN extCall.res.results
        /\ extCall.res.err = ErrNone

C12_Witness ==
    /\ extCall.op = "DetectAll"
    /\ Len(extCall.res.calls) = 2
    /\ extCall.res.calls[1].err
    /\ ~extCall.res.calls[2].err
    /\ extCall.res.calls[2].ext.name \in DOMAIN extCall.res.results

\* C13: the mapping DetectAll returns has key n exactly when the registered
\* extension named n returned data that is not nil and no error, the value
\* under n is that data, and an extension that returns nil is no key
C13_DetectAllResult ==
    extCall.op = "DetectAll" =>
        \A n \in Strs :
            /\ n \in DOMAIN extCall.res.results <=>
                   \E c \in CallsOf(extCall) :
                       c.ext = extensions[c.ext.name] /\ c.ext.name = n
                       /\ c.data # NilData /\ ~c.err
            /\ n \in DOMAIN extCall.res.results =>
                   \E c \in CallsOf(extCall) :
                       c.ext.name = n /\ extCall.res.results[n] = c.data

C13_Witness ==
    /\ extCall.op = "DetectAll"
    /\ Cardinality(DOMAIN extensions) = 2
    /\ Cardinality(DOMAIN extCall.res.results) = 1
    /\ \A c \in CallsOf(extCall) : ~c.err

\* C17: Register of an extension whose name is already registered succeeds
\* and replaces the earlier one: Get returns the extension registered last
\* under the name, and DetectAll calls that one only, once
C17_LastRegistrationWins ==
    /\ (extCall.op = "Register" /\ extCall.dup) =>
           /\ extCall.err = ErrNone
           /\ ExtGet(extensions, extCall.ext.name) = [ext |-> extCall.ext, ok |-> TRUE]
    /\ \A n \in DOMAIN extLatest :
           ExtGet(extensions, n) = [ext |-> extLatest[n], ok |-> TRUE]
    /\ extCall.op = "Get" => extCall.res = ExtGet(extensions, extCall.name)
    /\ extCall.op = "DetectAll" =>
           /\ \A c \in CallsOf(extCall) : c.ext = extLatest[c.ext.name]
           /\ \A i, j \in 1..Len(extCall.res.calls) :
                  i # j => extCall.res.calls[i].ext.name # extCall.res.calls[j].ext.name

C17_Witness ==
    /\ extCall.op = "DetectAll"
    /\ Len(extCall.res.calls) = 1
    /\ extCall.res.calls[1].ext.name \in extReplaced

\* C18: Register of an extension with an empty name fails with the
\* invalid-extension-name error and leaves the registered extensions as they
\* were
C18_EmptyExtensionName ==
    [][(extCall'.op = "Register" /\ ~extCall'.ext.isNil /\ extCall'.ext.name = "")
          => (extCall'.err = ErrInvalidExtensionName /\ extensions' = extensions)]_vars

C18_Witness ==
    /\ extCall.op = "Register"
    /\ extCall.err = ErrInvalidExtensionName
    /\ Cardinality(DOMAIN extensions) = 1

(***************************************************************************)
(* MergeExtensionData                                                      *)
(***************************************************************************)
Occurrences(n) == {i \in 1..Len(mExts) : mExts[i] = n}

MergeCallsFor(n) == {j \in 1..Len(mRes.calls) : mRes.calls[j].name = n}

Last(S) == CHOOSE j \in S : \A k \in S : k <= j

\* C14 as stated: the value of a name that had a value already is the
\* extension's Merge(existing, incoming), and every name of dataMap is in the
\* output, with dataMap's value when nothing was merged (no entry is lost)
C14_Original ==
    (mRes.op = "MergeExtensionData" /\ mRes.err = ErrNone) =>
        \A n \in DOMAIN mData :
            /\ n \in DOMAIN mRes.result
            /\ mRes.result[n] = IF MergeCallsFor(n) = {} THEN mData[n]
                                ELSE mRes.calls[Last(MergeCallsFor(n))].out.data

\* C14 amended: the output has exactly the names of dataMap that an
\* extension of the slice bears; the value is dataMap's when one extension
\* bears the name, and for each further extension of that name it is that
\* extension's Merge(existing, dataMap[name]); a dataMap entry whose name no
\* extension of the slice bears is not in the output
C14_MergeExtensionData ==
    (mRes.op = "MergeExtensionData" /\ mRes.err = ErrNone) =>
        /\ DOMAIN mRes.result = {n \in DOMAIN mData : Occurrences(n) # {}}
        /\ \A n \in DOMAIN mRes.result :
              /\ Cardinality(MergeCallsFor(n)) = Cardinality(Occurrences(n)) - 1
              /\ mRes.result[n] = IF MergeCallsFor(n) = {} THEN mData[n]
                                  ELSE mRes.calls[Last(MergeCallsFor(n))].out.data
        /\ \A j \in 1..Len(mRes.calls) :
              LET c == mRes.calls[j]
                  before == {k \in MergeCallsFor(c.name) : k < j}
              IN  /\ c.new = mData[c.name]
                  /\ c.existing = IF before = {} THEN mData[c.name]
                                  ELSE mRes.calls[Last(before)].out.data

C14_Witness ==
    /\ mRes.op = "MergeExtensionData"
    /\ mRes.err = ErrNone
    /\ Len(mRes.calls) = 1
    /\ mRes.calls[1].out.data # mRes.calls[1].existing
    /\ Cardinality(DOMAIN mRes.result) = 1
    /\ Cardinality(DOMAIN mData) = 2

\* C15 as stated: the error of a Merge is returned, and the data placed in
\* the result for the other extensions before is still there
C15_Original ==
    (mRes.op = "MergeExtensionData" /\ mRes.err # ErrNone) =>
        LET c == mRes.calls[Len(mRes.calls)]
        IN  /\ mRes.err = c.out.err
            /\ \A i \in 1..(c.pos - 1) :
                  (mExts[i] # c.name /\ mExts[i] \in DOMAIN mData)
                      => (~mRes.isNil /\ mExts[i] \in DOMAIN mRes.result)

\* C15 amended: the error of a Merge is returned and the whole call is
\* aborted: the returned map is nil, whatever was placed in the result for
\* other extensions before, and no Merge is called after the failing one
C15_MergeErrorAborts ==
    mRes.op = "MergeExtensionData" =>
        /\ \A j \in 1..Len(mRes.calls) :
              mRes.calls[j].out.err # ErrNone =>
                  /\ j = Len(mRes.calls)
                  /\ mRes.err = mRes.calls[j].out.err
                  /\ mRes.isNil
                  /\ mRes.result = EmptyMap
        /\ mRes.err # ErrNone =>
              (mRes.calls # <<>> /\ mRes.calls[Len(mRes.calls)].out.err = mRes.err)

C15_Witness ==
    /\ mRes.op = "MergeExtensionData"
    /\ mRes.err = ErrMerge
    /\ mRes.isNil
    /\ Len(mExts) = 3
    /\ mExts[1] # mExts[3]
    /\ mExts[1] \in DOMAIN mData

(***************************************************************************)
(* The docker extension's Merge                                            *)
(***************************************************************************)
\* C16: the docker extension's Merge never returns an error; Merge(nil, X)
\* is X, Merge(X, nil) is X, Merge(nil, nil) is nil, and of two non-nil
\* mappings every key of the new one is in the result with the new value
C16_DockerMerge ==
    dRes.op = "Merge" =>
        /\ dRes.err = ErrNone
        /\ dExisting.isNil => dRes.data = dNew
        /\ dNew.isNil => dRes.data = dExisting
        /\ (dExisting.isNil /\ dNew.isNil) => dRes.data = NilData
        /\ (~dExisting.isNil /\ ~dNew.isNil) =>
              /\ ~dRes.data.isNil
              /\ \A k \in DOMAIN dNew.m :
                    k \in DOMAIN dRes.data.m /\ dRes.data.m[k] = dNew.m[k]

C16_Witness ==
    /\ dRes.op = "Merge"
    /\ ~dExisting.isNil
    /\ ~dNew.isNil
    /\ \E k \in DOMAIN dExisting.m \cap DOMAIN dNew.m : dExisting.m[k] # dNew.m[k]
    /\ DOMAIN dExisting.m \ DOMAIN dNew.m # {}

(***************************************************************************)
(* Executor registry                                                       *)
(***************************************************************************)
\* C19: Register of a provider whose name is registered fails with the
\* already-registered error and the provider in place stays: as long as a
\* name is not removed by Unregister or Clear, Get(name) returns the first
\* provider registered under it
C19_FirstRegistrationStays ==
    /\ (execCall.op = "Register" /\ execCall.dup) => execCall.err = ErrProviderRegistered
    /\ \A n \in DOMAIN provFirst :
          ExecGet(providers, n) = [provider |-> provFirst[n], ok |-> TRUE]
    /\ (execCall.op = "Get" /\ execCall.name \in DOMAIN provFirst) =>
          execCall.res = [provider |-> provFirst[execCall.name], ok |-> TRUE]

C19_Witness ==
    /\ execCall.op = "Register"
    /\ execCall.dup
    /\ execCall.err = ErrProviderRegistered
    /\ execCall.provider.id # providers[execCall.provider.name].id

\* C20: Register of a provider with an empty name fails with the empty-name
\* error and leaves the registered providers as they were
C20_EmptyProviderName ==
    [][(execCall'.op = "Register" /\ ~execCall'.provider.isNil /\ execCall'.provider.name = "")
          => (execCall'.err = ErrEmptyProviderName /\ providers' = providers)]_vars

C20_Witness ==
    /\ execCall.op = "Register"
    /\ ~execCall.provider.isNil
    /\ execCall.provider.name = ""
    /\ execCall.err = ErrEmptyProviderName
    /\ Cardinality(DOMAIN providers) = 1

(***************************************************************************)
(* List and All                                                            *)
(***************************************************************************)
Elems(l) == {l[i] : i \in DOMAIN l}

Values(m) == {m[k] : k \in DOMAIN m}

\* C11: List and All return a collection of their own, holding exactly the
\* entries registered at the call, each once; a write of the caller to the
\* returned collection leaves the registry, and so what Get returns for every
\* name and what List and All have to return, as it was
C11_DefensiveCopies ==
    [][/\ (ret' # ret /\ ~ret'.changed) =>
             /\ ret'.addr = "fresh"
             /\ ret'.op = "List" =>
                   /\ Elems(ret'.list) = Values(plugins)
                   /\ Len(ret'.list) = Cardinality(DOMAIN plugins)
             /\ ret'.op = "ExtAll" => ret'.map = extensions
             /\ ret'.op = "ExecAll" => ret'.map = providers
       /\ (ret'.changed /\ ~ret.changed) =>
             /\ plugins' = plugins
             /\ aliases' = aliases
             /\ extensions' = extensions
             /\ providers' = providers
             /\ \A n \in Strs :
                   /\ Get(plugins', aliases', n) = Get(plugins, aliases, n)
                   /\ ExtGet(extensions', n) = ExtGet(extensions, n)
                   /\ ExecGet(providers', n) = ExecGet(providers, n)]_vars

C11_Witness ==
    /\ ret.op = "ExtAll"
    /\ ret.changed
    /\ Cardinality(DOMAIN extensions) = 2
    /\ DOMAIN ret.map # DOMAIN extensions

\* C21: FindProvider returns nil exactly when no registered provider's
\* CanHandle is true for the command; otherwise it returns one provider that
\* is registered and whose CanHandle is true, also when several match
C21_FindProvider ==
    execCall.op = "FindProvider" =>
        /\ DOMAIN execCall.can = DOMAIN providers
        /\ execCall.res.isNil <=> (\A n \in DOMAIN providers : ~execCall.can[n])
        /\ ~execCall.res.isNil =>
              /\ execCall.res.name \in DOMAIN providers
              /\ providers[execCall.res.name] = execCall.res
              /\ execCall.can[execCall.res.name]

C21_Witness ==
    /\ execCall.op = "FindProvider"
    /\ Cardinality(DOMAIN providers) = 2
    /\ \A n \in DOMAIN providers : execCall.can[n]
    /\ ~execCall.res.isNil

(***************************************************************************)
(* Routing wrapper                                                         *)
(***************************************************************************)
\* C22: Execute runs the command through exactly one executor: the one the
\* provider FindProvider returned creates, and then not the default one; or,
\* when FindProvider returned nil, the default one, and then no CreateExecutor
\* is called
C22_OneExecutor ==
    paCall.op = "Execute" =>
        /\ Len(paCall.ran) = 1
        /\ ~paCall.found.isNil =>
              /\ ~paCall.ran[1].executor.standard
              /\ paCall.ran[1].executor.provider = paCall.found
              /\ paCall.created = <<paCall.found>>
        /\ paCall.found.isNil =>
              /\ paCall.ran[1].executor.standard
              /\ paCall.created = <<>>

C22_Witness ==
    /\ paCall.op = "Execute"
    /\ ~paCall.found.isNil
    /\ Cardinality(DOMAIN providers) = 2
    /\ ~paCall.ran[1].executor.standard

\* C23: ExecuteWithContext calls the provider executor's ExecuteWithContext
\* with the caller's context when the executor has it, and then not its plain
\* Execute; it calls plain Execute when the executor has no ExecuteWithContext;
\* it calls the default executor's ExecuteWithContext when no provider claims
\* the command
C23_ContextPreferred ==
    paCall.op = "ExecuteWithContext" =>
        /\ Len(paCall.ran) = 1
        /\ (~paCall.found.isNil /\ paCall.aware) =>
              /\ paCall.ran[1].executor.provider = paCall.found
              /\ ~paCall.ran[1].executor.standard
              /\ paCall.ran[1].mode = "ExecuteWithContext"
              /\ paCall.ran[1].ctx = paCall.ctx
        /\ (~paCall.found.isNil /\ ~paCall.aware) =>
              /\ paCall.ran[1].executor.provider = paCall.found
              /\ ~paCall.ran[1].executor.standard
              /\ paCall.ran[1].mode = "Execute"
        /\ paCall.found.isNil =>
              /\ paCall.ran[1].executor.standard
              /\ paCall.ran[1].mode = "ExecuteWithContext"
              /\ paCall.ran[1].ctx = paCall.ctx

C23_Witness ==
    /\ paCall.op = "ExecuteWithContext"
    /\ ~paCall.found.isNil
    /\ paCall.aware
    /\ paCall.ran[1].mode = "ExecuteWithContext"
    /\ paCall.ran[1].ctx = CallerCtx

\* C24: what Execute and ExecuteWithContext return is the result and the
\* error the executor that ran the command returned, and the executor ran once
C24_PassThrough ==
    paCall.op \in {"Execute", "ExecuteWithContext"} =>
        /\ paCall.ret = paCall.out
        /\ Len(paCall.ran) = 1

C24_Witness ==
    /\ paCall.op = "ExecuteWithContext"
    /\ paCall.out.err = ErrExec
    /\ paCall.ret.err = ErrExec
    /\ ~paCall.found.isNil

\* C25: when the result of the executed command has a non-zero ExitCode, Run
\* and RunCapture return an error that is not nil, also when the result's
\* Error is nil
C25_ExitStatusSurfaced ==
    (paCall.op \in {"Run", "RunCapture"} /\ ~paCall.out.result.isNil
        /\ paCall.out.result.exitCode # 0) => paCall.ret.err # ErrNone

\* the invocations that have an executor in hand
Holding == {t \in Threads : inv[t].pc \in {"chosen", "done"}}

\* C26 as stated: in every interleaving of invocations, one that found a
\* provider has called CreateExecutor once, no executor is used by two
\* invocations, and no step of an invocation writes to the wrapper or to the
\* registry
C26_Original ==
    [][(inv' # inv) =>
          /\ wrapper' = wrapper
          /\ providers' = providers
          /\ \A t \in Holding' : ~inv'[t].found.isNil => inv'[t].creates = 1
          /\ \A t, u \in Holding' : t # u => inv'[t].ex # inv'[u].ex]_vars

\* C26 amended: in every interleaving of invocations, one that found a
\* provider has called CreateExecutor once and uses the executor it created,
\* which no other invocation uses; the invocations that found no provider
\* have called no CreateExecutor and all use the one standard executor of the
\* wrapper; no step of an invocation writes to the wrapper or to the registry
C26_ConcurrentInvocations ==
    [][(inv' # inv) =>
          /\ wrapper' = wrapper
          /\ providers' = providers
          /\ \A t \in Holding' :
                IF inv'[t].found.isNil
                THEN inv'[t].creates = 0 /\ inv'[t].ex = wrapper.standardExecutor
                ELSE /\ inv'[t].creates = 1
                     /\ inv'[t].ex # wrapper.standardExecutor
                     /\ \A u \in Holding' : t # u => inv'[t].ex # inv'[u].ex]_vars

C26_Witness ==
    /\ \A t \in Threads : inv[t].pc \in {"chosen", "done"}
    /\ \E t, u \in Threads :
          /\ t # u
          /\ ~inv[t].found.isNil
          /\ inv[t].found = inv[u].found
          /\ inv[t].ex # inv[u].ex
          /\ inv[t].pc = "chosen"
          /\ inv[u].pc = "chosen"

\* the two mappings agree on key k: in both or in neither, with one value
SameEntry(a, b, k) ==
    /\ (k \in DOMAIN a) <=> (k \in DOMAIN b)
    /\ k \in DOMAIN a => a[k] = b[k]

\* C27: after PopulateCompatibilityFields then UpdateExtensionsFromCompatibility
\* on a context whose Extensions["docker"] is a well-typed mapping, whatever
\* the legacy fields held before, every tracked key is in Extensions["docker"]
\* exactly when it was there at the start, with an equal value
C27_RoundTrip ==
    (/\ hist = <<"Populate", "Update">>
     /\ ~projCtx0.extNil /\ "docker" \in DOMAIN projCtx0.ext /\ projCtx0.ext["docker"].isMap
     /\ WellTyped(DockerOf(projCtx0)))
        => \A k \in TrackedKeys : SameEntry(DockerOf(projCtx0), DockerOf(projCtx), k)

\* C28: a key of Extensions["docker"] that the legacy struct has no field for
\* is still there with the same value after any sequence of
\* PopulateCompatibilityFields and UpdateExtensionsFromCompatibility
C28_UnknownKeysKept ==
    UnknownKey \in DOMAIN DockerOf(projCtx0)
        => SameEntry(DockerOf(projCtx0), DockerOf(projCtx), UnknownKey)

\* the legacy fields and Extensions["docker"] can be derived from each other:
\* a tracked key that is present holds the legacy field, and a legacy field
\* that is not default has its key
Derivable(c) ==
    \A k \in TrackedKeys :
        /\ k \in DOMAIN DockerOf(c) => DockerOf(c)[k] = LegacyValue(c, k)
        /\ NonDefault(c, k) => k \in DOMAIN DockerOf(c) /\ DockerOf(c)[k] = LegacyValue(c, k)

\* C29 as stated: after PopulateCompatibilityFields then
\* UpdateExtensionsFromCompatibility, on any context, the legacy fields and
\* Extensions["docker"] are mutually derivable
C29_Original ==
    hist = <<"Populate", "Update">> => Derivable(projCtx)

\* C29: after PopulateCompatibilityFields then
\* UpdateExtensionsFromCompatibility on a context whose Extensions["docker"]
\* held values of the expected types under its tracked keys, every tracked key
\* that is present holds a value equal to its legacy field, and every legacy
\* field that is not default has its key with an equal value
C29_MutuallyDerivable ==
    (hist = <<"Populate", "Update">> /\ WellTyped(DockerOf(projCtx0))) => Derivable(projCtx)

C29_Witness ==
    /\ hist = <<"Populate", "Update">>
    /\ WellTyped(DockerOf(projCtx0))
    /\ "compose_files" \in DOMAIN DockerOf(projCtx0)
    /\ DockerOf(projCtx0)["compose_files"].v = 1
    /\ projCtx0.ComposeFiles = 0
    /\ projCtx0.DockerRunning = 1
    /\ "docker_running" \notin DOMAIN DockerOf(projCtx0)
    /\ projCtx.ComposeFiles = 1
    /\ "docker_running" \in DOMAIN DockerOf(projCtx)

\* C30: when a legacy field is not default, UpdateExtensionsFromCompatibility
\* leaves under Extensions["docker"] a mapping whose keys are exactly the keys
\* of the legacy fields that are not default (none for an empty list, an empty
\* string, false or an empty mapping, none from the value that was there
\* before), each with the value of its field
C30_FreshFromPopulated ==
    (/\ hist # <<>>
     /\ hist[Len(hist)] = "Update"
     /\ HasDockerData(projCtxPrev))
        => /\ DOMAIN DockerOf(projCtx) = {k \in TrackedKeys : NonDefault(projCtxPrev, k)}
           /\ \A k \in DOMAIN DockerOf(projCtx) : DockerOf(projCtx)[k] = LegacyValue(projCtxPrev, k)

\* the call made last on the context
LastOp == IF hist = <<>> THEN "none" ELSE hist[Len(hist)]

\* C31: after UpdateExtensionsFromCompatibility on a context with a legacy
\* field that is not default, Extensions["docker"] exists and is a mapping
\* that holds, for every legacy field that is not default, its key with the
\* value of the field, also when Extensions was nil or empty before
C31_UpdateWritesFields ==
    (LastOp = "Update" /\ HasDockerData(projCtxPrev))
        => /\ ~projCtx.extNil
           /\ "docker" \in DOMAIN projCtx.ext
           /\ projCtx.ext["docker"].isMap
           /\ LET dc == projCtx.ext["docker"].m
              IN  /\ projCtxPrev.ComposeFiles # 0 =>
                        /\ "compose_files" \in DOMAIN dc
                        /\ dc["compose_files"] = [type |-> "[]string", v |-> projCtxPrev.ComposeFiles]
                  /\ projCtxPrev.ComposeOverride # 0 =>
                        /\ "compose_override" \in DOMAIN dc
                        /\ dc["compose_override"] = [type |-> "string", v |-> projCtxPrev.ComposeOverride]
                  /\ projCtxPrev.DockerRunning # 0 =>
                        /\ "docker_running" \in DOMAIN dc
                        /\ dc["docker_running"] = [type |-> "bool", v |-> 1]
                  /\ projCtxPrev.ContainersStatus # 0 =>
                        /\ "containers_status" \in DOMAIN dc
                        /\ dc["containers_status"] =
                               [type |-> "map[string]ContainerStatus", v |-> projCtxPrev.ContainersStatus]

C31_Witness ==
    /\ hist = <<"Update">>
    /\ projCtxPrev.extNil
    /\ projCtxPrev.ComposeFiles = 1
    /\ projCtxPrev.DockerRunning = 1
    /\ projCtxPrev.ContainersStatus = 1
    /\ projCtxPrev.ComposeOverride = 0
    /\ DOMAIN DockerOf(projCtx) = {"compose_files", "docker_running", "containers_status"}

\* C32: UpdateExtensionsFromCompatibility on a context whose legacy fields are
\* all default leaves the "docker" entry of Extensions as it was: present with
\* the same value, or absent
C32_DefaultLeavesEntry ==
    (LastOp = "Update" /\ \A k \in TrackedKeys : LegacyField(projCtxPrev, k) = 0)
        => /\ ("docker" \in DOMAIN projCtx.ext) <=> ("docker" \in DOMAIN projCtxPrev.ext)
           /\ "docker" \in DOMAIN projCtxPrev.ext => projCtx.ext["docker"] = projCtxPrev.ext["docker"]

C32_Witness ==
    /\ hist = <<"Update">>
    /\ \A k \in TrackedKeys : LegacyField(projCtxPrev, k) = 0
    /\ DOMAIN DockerOf(projCtxPrev) = {"compose_files", UnknownKey}
    /\ DockerOf(projCtxPrev)["compose_files"].v = 1
    /\ projCtx.ext["docker"] = projCtxPrev.ext["docker"]

\* C33: PopulateCompatibilityFields sets a legacy field exactly when
\* Extensions["docker"] is a mapping that holds the field's key with a value
\* of the expected type, and then to that value; every other legacy field
\* keeps its value and Extensions is not modified
C33_PopulateFrame ==
    LastOp = "Populate"
        => /\ projCtx.extNil = projCtxPrev.extNil
           /\ projCtx.ext = projCtxPrev.ext
           /\ \A k \in TrackedKeys :
                 LET copied == /\ ~projCtxPrev.extNil
                               /\ "docker" \in DOMAIN projCtxPrev.ext
                               /\ projCtxPrev.ext["docker"].isMap
                               /\ k \in DOMAIN projCtxPrev.ext["docker"].m
                               /\ projCtxPrev.ext["docker"].m[k].type = ExpectedType(k)
                 IN  LegacyField(projCtx, k) =
                        IF copied THEN projCtxPrev.ext["docker"].m[k].v ELSE LegacyField(projCtxPrev, k)

C33_Witness ==
    /\ hist = <<"Populate">>
    /\ DOMAIN DockerOf(projCtxPrev) = {"compose_files", "compose_override"}
    /\ DockerOf(projCtxPrev)["compose_files"] = [type |-> "[]string", v |-> 0]
    /\ DockerOf(projCtxPrev)["compose_override"].type = TOther
    /\ projCtxPrev.ComposeFiles = 1
    /\ projCtxPrev.ComposeOverride = 1
    /\ projCtxPrev.ContainersStatus = 1
    /\ projCtx.ComposeFiles = 0
    /\ projCtx.ComposeOverride = 1
    /\ projCtx.ContainersStatus = 1

\* C34: PopulateCompatibilityFields called twice in a row, and
\* UpdateExtensionsFromCompatibility called twice in a row, leave the legacy
\* fields and Extensions as the first of the two calls left them
C34_Idempotent ==
    (hist = <<"Populate", "Populate">> \/ hist = <<"Update", "Update">>) => projCtx = projCtxPrev

C34_Witness ==
    /\ hist = <<"Update", "Update">>
    /\ projCtx0.extNil
    /\ projCtx0.ComposeFiles = 1
    /\ projCtx0.DockerRunning = 1
    /\ projCtxPrev # projCtx0
    /\ projCtx = projCtxPrev

\* C39: from a context with a legacy field that is not default,
\* UpdateExtensionsFromCompatibility then PopulateCompatibilityFields leaves
\* every legacy field with the value it had before the two calls, whatever
\* Extensions["docker"] held
C39_LegacyRoundTrip ==
    (hist = <<"Update", "Populate">> /\ HasDockerData(projCtx0))
        => \A k \in TrackedKeys : LegacyField(projCtx, k) = LegacyField(projCtx0, k)

C39_Witness ==
    /\ hist = <<"Update", "Populate">>
    /\ projCtx0.ComposeFiles = 1
    /\ projCtx0.ComposeOverride = 0
    /\ "compose_override" \in DOMAIN DockerOf(projCtx0)
    /\ DockerOf(projCtx0)["compose_override"] = [type |-> "string", v |-> 1]
    /\ projCtx.ComposeFiles = 1
    /\ projCtx.ComposeOverride = 0

\* C40: UpdateExtensionsFromCompatibility changes no legacy field and no
\* entry of Extensions other than "docker"
C40_UpdateFrame ==
    LastOp = "Update"
        => /\ \A k \in TrackedKeys : LegacyField(projCtx, k) = LegacyField(projCtxPrev, k)
           /\ DOMAIN projCtx.ext \ {"docker"} = DOMAIN projCtxPrev.ext \ {"docker"}
           /\ \A n \in DOMAIN projCtx.ext \ {"docker"} : projCtx.ext[n] = projCtxPrev.ext[n]

C40_Witness ==
    /\ hist = <<"Update">>
    /\ "git" \in DOMAIN projCtxPrev.ext
    /\ "docker" \notin DOMAIN projCtxPrev.ext
    /\ projCtxPrev.DockerRunning = 1
    /\ DOMAIN projCtx.ext = {"docker", "git"}

\* the calls of a hook on plugin p that the LoadAll call has made
HookCalls(p, hook) == {i \in 1..Len(log) : log[i].plugin = p /\ log[i].hook = hook}

\* C35: when LoadAll has returned nil, every plugin that was registered when
\* the call started has had Configure called once and Register called once in
\* that call, and each Configure call received the configuration that the
\* last SetConfig before the call supplied
C35_EveryPluginLoadedOnce ==
    (loadPc = "returned" /\ loadErr = NoErr /\ lastCall.op = "LoadAll")
        => \A name \in DOMAIN lastCall.plugins :
              /\ Cardinality(HookCalls(lastCall.plugins[name], "Configure")) = 1
              /\ Cardinality(HookCalls(lastCall.plugins[name], "Register")) = 1
              /\ \A i \in HookCalls(lastCall.plugins[name], "Configure") :
                    log[i].config = lastCall.config

C35_Witness ==
    /\ loadPc = "returned"
    /\ loadErr = NoErr
    /\ lastCall.op = "LoadAll"
    /\ Cardinality(DOMAIN lastCall.plugins) = 2
    /\ lastCall.config # EmptyConfig
    /\ Len(log) = 4

\* C36: a LoadAll call that has started returns, also when a hook it calls
\* itself calls Register or SetConfig on the same registry
C36_LoadAllReturns ==
    (loadPc \notin {"idle", "returned"}) ~> (loadPc = "returned")

\* what FindProvider can return on the providers map provs, over the orders
\* of the range loop and the answers of CanHandle
FindResults(provs) ==
    {FindLoop(provs, order, can, 1) : order \in Perms(DOMAIN provs), can \in CanHandleOutcomes(provs)}

\* C38: after Unregister(name), Get(name) reports not-found, FindProvider
\* does not return the removed provider, Register of a provider with that
\* name succeeds and every other provider is registered as before;
\* Unregister of a name that is not registered changes nothing; after Clear
\* no provider is registered and FindProvider returns nil
C38_UnregisterAndClear ==
    [][/\ execCall'.op = "Unregister" =>
             LET n == execCall'.name
             IN  /\ ExecGet(providers', n) = [provider |-> NilProvider, ok |-> FALSE]
                 /\ n \in DOMAIN providers =>
                       /\ providers[n] \notin FindResults(providers')
                       /\ \A p \in Providers :
                             p.name = n =>
                                 /\ ExecRegisterErr(providers', p) = ErrNone
                                 /\ ExecGet(ExecRegisterMap(providers', p), n).provider = p
                 /\ DOMAIN providers' = DOMAIN providers \ {n}
                 /\ \A k \in DOMAIN providers' : providers'[k] = providers[k]
                 /\ n \notin DOMAIN providers => providers' = providers
       /\ execCall'.op = "Clear" =>
             /\ providers' = EmptyMap
             /\ \A name \in Strs : ~ExecGet(providers', name).ok
             /\ FindResults(providers') = {NilProvider}]_vars

C38_Witness ==
    /\ execCall.op = "Unregister"
    /\ execCall.found
    /\ execCall.name \notin DOMAIN providers
    /\ Cardinality(DOMAIN providers) = 1

\* the Register calls made with a provider named n
CallsNamed(n) == {t \in Threads : th[t] # Idle /\ ~th[t].provider.isNil /\ th[t].provider.name = n}

\* C37: when the concurrent Register calls made with providers of one
\* non-empty name, on a registry that had none of that name, have all
\* returned, one of them returned nil, every other one returned the
\* already-registered error, and the registry holds the provider of the call
\* that returned nil
C37_OneRegistrationWins ==
    \A n \in Strs \ {""} :
        (CallsNamed(n) # {} /\ \A t \in CallsNamed(n) : th[t].pc = "done")
            => \E w \in CallsNamed(n) :
                  /\ th[w].err = ErrNone
                  /\ n \in DOMAIN providers
                  /\ providers[n] = th[w].provider
                  /\ \A t \in CallsNamed(n) \ {w} : th[t].err = ErrProviderRegistered

C37_Witness ==
    /\ th[1].pc = "done"
    /\ th[2].pc = "done"
    /\ ~th[1].provider.isNil
    /\ ~th[2].provider.isNil
    /\ th[1].provider.name = th[2].provider.name
    /\ th[1].provider.id # th[2].provider.id
    /\ th[1].err = ErrProviderRegistered
    /\ th[2].err = ErrNone
    /\ providers[th[2].provider.name] = th[2].provider

====
